---- MODULE Spec2Model ----
(***************************************************************************)
(* The ordered-list position manager of the Soundmap bot: the three        *)
(* per-user position tables (user_epics, user_wishlist_epics,              *)
(* user_fav_artists) behind core/db.py's single shared SQLite connection,  *)
(* and the add / delete / move / sort handlers of cogs/profile.py.         *)
(*                                                                         *)
(* One step of a task is one awaited store round trip.  db.execute,        *)
(* db.fetch_one and db.fetch_all read db.in_transaction and run their      *)
(* statement in one step; the commit they issue when the connection was    *)
(* not in a transaction is a later step of its own, so other tasks may run *)
(* between a statement and its commit.                                     *)
(***************************************************************************)
EXTENDS Integers, Sequences, FiniteSets, TLC

\* ---------------------------------------------------------------- bounds
MaxOps == 2
MaxFaults == 1
MaxRound == 3
MaxLen == 4
MaxSize == 3

\* ---------------------------------------------------------------- domains
Users == {"u1", "u2"}
Kinds == {"user_epics", "user_wishlist_epics", "user_fav_artists"}
Keys == {"k1", "k2", "k3", "k4", "k5"}
\* The items requests name when requests follow each other or overlap; k4
\* is in the catalogue and enters a list only where a list is given with it;
\* k5 is an Epic of the track of k1 with another serial number (a row of
\* user_epics is identified by track_id and epic_number).
AskedKeys == {"k1", "k2", "k3"}
TrackOf == [k \in Keys |-> IF k = "k5" THEN "k1" ELSE k]
Tasks == {1, 2}

\* Display names of the catalogue rows (tracks.artist_name/title,
\* artists.name) as ASCII codes: Banana, apple, Cherry, APPLE (a second
\* catalogue row whose name equals another's up to case).
NameOf ==
    [k \in Keys |->
        CASE TrackOf[k] = "k1" -> <<66, 97, 110, 97, 110, 97>>
          [] k = "k2" -> <<97, 112, 112, 108, 101>>
          [] k = "k3" -> <<67, 104, 101, 114, 114, 121>>
          [] OTHER -> <<65, 80, 80, 76, 69>>]

NoPayload == "none"
GivenBadges == {"none", "Shiny", "Gold"}
\* BADGES: the badge choices addartist and setbadge offer.
BADGES ==
    {"Bronze", "Silver", "Gold", "Platinum", "Diamond", "Legendary", "VIP", "Shiny"}

\* What a command may be given in place of an item of the catalogue: no
\* item at all (the optional argument left out), and a string that does not
\* parse as an item ("int(artist)", "epic.split('|')" raise).
NoItem == "no_item"
BadItem == "bad_item"
\* A track argument for which spotify.get_track returns nothing.
NoSong == "no_song"

\* The epic_number argument of addepic as an integer.
EpicNumbers == {"#-1", "#0", "#1", "#2"}
EpicNumberOf(x) ==
    CASE x = "#-1" -> -1
      [] x = "#0" -> 0
      [] x = "#1" -> 1
      [] OTHER -> 2

\* A check that lets the serial number 0 pass ("if epic_number < 0").
BadNumber_Negative(x) == EpicNumberOf(x) < 0

\* addepic: "if epic_number <= 0"
BadNumber(x) == EpicNumberOf(x) <= 0

\* The row of user_epics an addepic for a track and a serial number is about.
ItemOf(track, x) == IF track = "k1" /\ x = "#2" THEN "k5" ELSE track

AddCmds == {"addepic", "addwish", "wishcurrent", "addartist", "favartistcurrent"}
DelCmds == {"delepic", "delwish", "delartist"}
MoveCmds == {"move_epic_to", "move_wish_to", "move_artist_to"}
SortCmds == {"sortepics", "sortwishes", "sortartists"}
Cmds == AddCmds \cup DelCmds \cup MoveCmds \cup SortCmds

\* The table each command works on.
KindOf(cmd) ==
    CASE cmd \in {"addepic", "delepic", "move_epic_to", "sortepics"}
            -> "user_epics"
      [] cmd \in {"addwish", "wishcurrent", "delwish", "move_wish_to", "sortwishes"}
            -> "user_wishlist_epics"
      [] OTHER -> "user_fav_artists"

\* The sort modes each sort command offers.
ModesOf(cmd) ==
    IF cmd = "sortartists" THEN {"name", "badge", "manual"} ELSE {"name", "manual"}

\* ---------------------------------------------------------------- rows
\* A row of a position table; position 0 stands for "no such row".
NoRow == [position |-> 0, payload |-> NoPayload]
Row(p, x) == [position |-> p, payload |-> x]

EmptyList == [k \in Keys |-> NoRow]
\* k1, k2, k3 stored at 1, 2, 3.
SeedList ==
    [k \in Keys |->
        CASE k = "k1" -> Row(1, NoPayload)
          [] k = "k2" -> Row(2, NoPayload)
          [] k = "k3" -> Row(3, NoPayload)
          [] OTHER -> NoRow]

Present(list) == {k \in Keys : list[k].position # 0}
Positions(list) == {list[k].position : k \in Present(list)}
MaxPosition(list) ==
    IF Present(list) = {} THEN 0
    ELSE CHOOSE m \in Positions(list) : \A p \in Positions(list) : p <= m

\* Dense: the N stored positions are exactly 1..N, no two rows sharing one.
Dense(list) ==
    /\ Positions(list) = 1..Cardinality(Present(list))
    /\ \A a, b \in Present(list) : list[a].position = list[b].position => a = b

\* ---------------------------------------------------------------- statements
\* A position lookup that shifts nothing.
BumpAll_None(list) == list

\* A shift that moves every entry down by two.
BumpAll_Twice(list) ==
    [k \in Keys |->
        IF list[k].position # 0
        THEN [list[k] EXCEPT !.position = @ + 2]
        ELSE list[k]]

\* UPDATE <table> SET position = position + 1 WHERE user_id=?
BumpAll(list) ==
    [k \in Keys |->
        IF list[k].position # 0
        THEN [list[k] EXCEPT !.position = @ + 1]
        ELSE list[k]]

\* An insert that appends: the new row goes below the rows the user has.
InsertRow_Append(list, key, pos, payload) ==
    [list EXCEPT ![key] = Row(MaxPosition(list) + 1, payload)]

\* INSERT INTO <table>(user_id, <key>, <payload>, position) VALUES(...)
InsertRow(list, key, pos, payload) == [list EXCEPT ![key] = Row(pos, payload)]

\* ShiftDown without its lower limit (WHERE user_id=? AND position < old_pos).
ShiftDown_FromTop(list, new_pos, old_pos) ==
    [k \in Keys |->
        IF list[k].position # 0 /\ list[k].position < old_pos
        THEN [list[k] EXCEPT !.position = @ + 1]
        ELSE list[k]]

\* UPDATE <table> SET position = position + 1
\*   WHERE user_id=? AND position >= new_pos AND position < old_pos
ShiftDown(list, new_pos, old_pos) ==
    [k \in Keys |->
        IF list[k].position # 0 /\ list[k].position >= new_pos
                                /\ list[k].position < old_pos
        THEN [list[k] EXCEPT !.position = @ + 1]
        ELSE list[k]]

\* ShiftUp with the moved-to position left out of the range (position < new_pos).
ShiftUp_Exclusive(list, new_pos, old_pos) ==
    [k \in Keys |->
        IF list[k].position # 0 /\ list[k].position < new_pos
                                /\ list[k].position > old_pos
        THEN [list[k] EXCEPT !.position = @ - 1]
        ELSE list[k]]

\* UPDATE <table> SET position = position - 1
\*   WHERE user_id=? AND position <= new_pos AND position > old_pos
ShiftUp(list, new_pos, old_pos) ==
    [k \in Keys |->
        IF list[k].position # 0 /\ list[k].position <= new_pos
                                /\ list[k].position > old_pos
        THEN [list[k] EXCEPT !.position = @ - 1]
        ELSE list[k]]

\* The range shift move_*_to issues for its direction.
ShiftRange(list, new_pos, old_pos) ==
    IF new_pos < old_pos THEN ShiftDown(list, new_pos, old_pos)
    ELSE ShiftUp(list, new_pos, old_pos)

\* UPDATE <table> SET position=? WHERE user_id=? AND <key>=?
SetPosition(list, key, pos) ==
    IF list[key].position # 0
    THEN [list EXCEPT ![key].position = pos]
    ELSE list

\* A DELETE that removes no row.
DeleteRow_None(list, key) == list

\* A DELETE without the key in its WHERE clause (WHERE user_id=?).
DeleteRow_All(list, key) == [k \in Keys |-> NoRow]

\* DELETE FROM <table> WHERE user_id=? AND <key>=?
DeleteRow(list, key) == [list EXCEPT ![key] = NoRow]

\* A compaction that lowers every row of the user, whatever its position.
CompactAfter_All(list, pos) ==
    [k \in Keys |->
        IF list[k].position # 0
        THEN [list[k] EXCEPT !.position = @ - 1]
        ELSE list[k]]

\* UPDATE <table> SET position = position - 1 WHERE user_id=? AND position > ?
CompactAfter(list, pos) ==
    [k \in Keys |->
        IF list[k].position # 0 /\ list[k].position > pos
        THEN [list[k] EXCEPT !.position = @ - 1]
        ELSE list[k]]

\* A payload update that also moves the entry to the top.
SetPayload_Top(list, key, x) ==
    IF list[key].position # 0
    THEN [list EXCEPT ![key] = Row(1, x)]
    ELSE list

\* UPDATE <table> SET note=? / badge=? WHERE user_id=? AND <key>=?
SetPayload(list, key, x) ==
    IF list[key].position # 0
    THEN [list EXCEPT ![key].payload = x]
    ELSE list

\* A lower clamp that is off by one ("if new_pos < 2: new_pos = 2").
ClampLow_Two(new_pos) == IF new_pos < 2 THEN 2 ELSE new_pos

\* new_pos after "if new_pos < 1: new_pos = 1".
ClampLow(new_pos) == IF new_pos < 1 THEN 1 ELSE new_pos

\* new_pos after "if new_pos > max_pos: new_pos = max_pos".
ClampHigh(new_pos, max_pos) == IF new_pos > max_pos THEN max_pos ELSE new_pos

\* Python's "value or 1": 0 (and NULL) become 1.
OrOne(v) == IF v = 0 THEN 1 ELSE v

\* ---------------------------------------------------------------- ordering
\* A collation that folds nothing (plain byte order).
Lower_Binary(c) == c

\* COLLATE NOCASE folds the 26 ASCII upper-case letters, then compares bytes.
Lower(c) == IF c \in 65..90 THEN c + 32 ELSE c

Min(a, b) == IF a < b THEN a ELSE b

NoCaseLeq(a, b) ==
    LET n == Min(Len(a), Len(b))
        Diff == {i \in 1..n : Lower(a[i]) # Lower(b[i])}
    IN  IF Diff = {} THEN Len(a) <= Len(b)
        ELSE LET i == CHOOSE j \in Diff : \A m \in Diff : j <= m
             IN  Lower(a[i]) < Lower(b[i])

NameLeq(a, b) == NoCaseLeq(NameOf[a], NameOf[b])

\* CASE ufa.badge WHEN 'Shiny' THEN 7 ... WHEN 'Bronze' THEN 0 ELSE -1 END
BadgeRank(badge) ==
    CASE badge = "Shiny" -> 7
      [] badge = "VIP" -> 6
      [] badge = "Legendary" -> 5
      [] badge = "Diamond" -> 4
      [] badge = "Platinum" -> 3
      [] badge = "Gold" -> 2
      [] badge = "Silver" -> 1
      [] badge = "Bronze" -> 0
      [] OTHER -> -1

\* A badge order that puts the lowest rank first (ASC in place of DESC).
BadgeLeq_Ascending(list, a, b) ==
    \/ BadgeRank(list[a].payload) < BadgeRank(list[b].payload)
    \/ /\ BadgeRank(list[a].payload) = BadgeRank(list[b].payload)
       /\ NameLeq(a, b)

\* ORDER BY <badge rank> DESC, a.name COLLATE NOCASE
BadgeLeq(list, a, b) ==
    \/ BadgeRank(list[a].payload) > BadgeRank(list[b].payload)
    \/ /\ BadgeRank(list[a].payload) = BadgeRank(list[b].payload)
       /\ NameLeq(a, b)

SortLeq(mode, list, a, b) ==
    IF mode = "badge" THEN BadgeLeq(list, a, b) ELSE NameLeq(a, b)

\* The row sequences the ORDER BY of a sort's SELECT may return: every
\* arrangement of the user's rows that respects the order (rows that compare
\* equal come in an order the store chooses).
SortedRows(mode, list) ==
    LET S == Present(list)
        n == Cardinality(S)
    IN  {s \in [1..n -> S] :
            /\ \A i, j \in 1..n : i # j => s[i] # s[j]
            /\ \A i, j \in 1..n : i < j => SortLeq(mode, list, s[i], s[j])}

\* profile: SELECT ... WHERE user_id=? ORDER BY position ASC - the row
\* sequences the profile may show for a list (rows at one position come in
\* an order the store chooses).
ProfileRows(list) ==
    LET S == Present(list)
        n == Cardinality(S)
    IN  {s \in [1..n -> S] :
            /\ \A i, j \in 1..n : i # j => s[i] # s[j]
            /\ \A i, j \in 1..n : i < j => list[s[i]].position <= list[s[j]].position}

\* ---------------------------------------------------------------- state
VARIABLES
    tbl,             \* the tables as the connection sees them (uncommitted writes included)
    committed,       \* the tables as of the last COMMIT
    in_transaction,  \* aiosqlite's db.in_transaction
    pc,              \* per task: the store round trip it is about to make
    op,              \* per task: the request it is serving
    loc,             \* per task: the handler's local variables
    res,             \* per task: how its last request ended
    pre,             \* per task: tbl when its request started
    nops,            \* requests started so far
    faults           \* store failures and cancellations so far

vars == <<tbl, committed, in_transaction, pc, op, loc, res, pre, nops, faults>>

\* Targets a move is asked for: below the list, inside it, beyond it.
Targets == 0..4

\* _bump_positions returns 1: the position every new entry is stored at.
TopPosition == 1

NoOp ==
    [cmd |-> "none", user |-> "u1", key |-> "k1", new_pos |-> 0,
     mode |-> "none", payload |-> NoPayload, wrapped |-> FALSE]

InitLoc ==
    [ret |-> "none", old_pos |-> 0, new_pos |-> 0, max_pos |-> 0,
     rows |-> <<>>, idx |-> 0, depth |-> 0, err |-> "none", out |-> "none",
     call |-> "none", at |-> "none"]

\* The payload values a command may be given.
PayloadsOf(cmd) ==
    CASE cmd = "addepic" -> {"#1"}
      [] cmd = "addwish" -> {"none", "note"}
      [] cmd = "addartist" -> GivenBadges
      [] OTHER -> {NoPayload}

\* The database as the process finds it: u1 has k1, k2, k3 at 1, 2, 3 in
\* each of the three lists, u2 has no entries.
InitTables ==
    [kind \in Kinds |-> [u \in Users |-> IF u = "u1" THEN SeedList ELSE EmptyList]]

Init ==
    /\ tbl = InitTables
    /\ committed = InitTables
    /\ in_transaction = FALSE
    /\ pc = [t \in Tasks |-> "idle"]
    /\ op = [t \in Tasks |-> NoOp]
    /\ loc = [t \in Tasks |-> InitLoc]
    /\ res = [t \in Tasks |-> "none"]
    /\ pre = [t \in Tasks |-> InitTables]
    /\ nops = 0
    /\ faults = 0

\* The list (table, user) task t's request works on, and tbl with it replaced.
Cur(t) == tbl[KindOf(op[t].cmd)][op[t].user]
WithList(t, list) == [tbl EXCEPT ![KindOf(op[t].cmd)][op[t].user] = list]

\* ---------------------------------------------------------------- core/db.py
\* A variant that commits after every statement, whatever in_tx was.
CommitsAfter_Always(inTx) == TRUE

\* execute/fetch_one/fetch_all: "if not in_tx: await db.commit()" - the task
\* goes on to a commit round trip when the connection was not in a
\* transaction as the statement was issued, and straight on otherwise.
CommitsAfter(inTx) == ~inTx

AfterStatement(t, next) ==
    [pc EXCEPT ![t] = IF CommitsAfter(in_transaction) THEN "commit" ELSE next]

\* db.execute(query): one write statement of task t leaving the tables as
\* newTbl, then on to next.  Python's sqlite3 opens a transaction before an
\* INSERT/UPDATE/DELETE when none is open; a SELECT opens none.
Execute(t, newTbl, next, newLoc) ==
    /\ tbl' = newTbl
    /\ in_transaction' = TRUE
    /\ pc' = AfterStatement(t, next)
    /\ loc' = [loc EXCEPT ![t] = [newLoc EXCEPT !.ret = next, !.call = "execute"]]
    /\ UNCHANGED <<committed, op, res, pre, nops, faults>>

\* db.fetch_one / db.fetch_all: one SELECT of task t, then on to next.
Fetch(t, next, newLoc) ==
    /\ pc' = AfterStatement(t, next)
    /\ loc' = [loc EXCEPT ![t] = [newLoc EXCEPT !.ret = next, !.call = "fetch"]]
    /\ UNCHANGED <<tbl, committed, in_transaction, op, res, pre, nops, faults>>

\* "await db.commit()" of execute/fetch_one/fetch_all.
Commit(t) ==
    /\ pc[t] = "commit"
    /\ committed' = tbl
    /\ in_transaction' = FALSE
    /\ pc' = [pc EXCEPT ![t] = loc[t].ret]
    /\ UNCHANGED <<tbl, op, loc, res, pre, nops, faults>>

\* transaction(): await db.execute("BEGIN"), then the block's body from
\* pc next.  BEGIN on a connection that is in a transaction fails ("cannot
\* start a transaction within a transaction"); the statement stands before
\* the try, so nothing is rolled back for it here.
BeginBlock(t, next) ==
    /\ IF in_transaction
       THEN /\ pc' = [pc EXCEPT ![t] = "return"]
            /\ loc' = [loc EXCEPT ![t].err = "OperationalError", ![t].call = "begin"]
            /\ UNCHANGED in_transaction
       ELSE /\ in_transaction' = TRUE
            /\ pc' = [pc EXCEPT ![t] = next]
            /\ loc' = [loc EXCEPT ![t].depth = @ + 1, ![t].idx = 1, ![t].call = "begin"]
    /\ UNCHANGED <<tbl, committed, op, res, pre, nops, faults>>

\* "async with db.transaction():" of a move, a delete or a sort.
Begin(t) ==
    /\ pc[t] = "begin"
    /\ BeginBlock(t,
            CASE op[t].cmd \in DelCmds -> "delete"
              [] op[t].cmd \in MoveCmds -> "shift"
              [] OTHER -> IF Len(loc[t].rows) = 0 THEN "tx_commit" ELSE "sort_update")

\* transaction(): "else: await db.commit()" on normal exit of the block.
TxCommit(t) ==
    /\ pc[t] = "tx_commit"
    /\ committed' = tbl
    /\ in_transaction' = FALSE
    /\ pc' = [pc EXCEPT ![t] = "return"]
    /\ loc' = [loc EXCEPT ![t].depth = @ - 1, ![t].out = "ok", ![t].call = "commit"]
    /\ UNCHANGED <<tbl, op, res, pre, nops, faults>>

\* An except clause that rolls back and runs the block's statements again.
Rollback_Retry(t) ==
    /\ pc[t] = "rollback"
    /\ tbl' = committed
    /\ in_transaction' = TRUE
    /\ pc' = [pc EXCEPT ![t] =
                CASE op[t].cmd \in DelCmds -> "delete"
                  [] op[t].cmd \in MoveCmds -> "shift"
                  [] OTHER -> IF Len(loc[t].rows) = 0 THEN "tx_commit" ELSE "sort_update"]
    /\ loc' = [loc EXCEPT ![t].err = "none", ![t].idx = 1, ![t].call = "rollback"]
    /\ UNCHANGED <<committed, op, res, pre, nops, faults>>

\* An except clause that re-raises without rolling back.
Rollback_Skipped(t) ==
    /\ pc[t] = "rollback"
    /\ in_transaction' = FALSE
    /\ pc' = [pc EXCEPT ![t] = "return"]
    /\ loc' = [loc EXCEPT ![t].depth = @ - 1, ![t].call = "rollback"]
    /\ UNCHANGED <<tbl, committed, op, res, pre, nops, faults>>

\* transaction(): "except Exception: await db.rollback(); raise".
Rollback(t) ==
    /\ pc[t] = "rollback"
    /\ tbl' = committed
    /\ in_transaction' = FALSE
    /\ pc' = [pc EXCEPT ![t] = "return"]
    /\ loc' = [loc EXCEPT ![t].depth = @ - 1, ![t].call = "rollback"]
    /\ UNCHANGED <<committed, op, res, pre, nops, faults>>

\* The buttons of MoveEpicView, MoveWishView and MoveArtistView.
Buttons == {"up", "down"}

\* Control leaves the handler, or reaches the end of an enclosing
\* transaction block: an exception inside a block goes to its except
\* clause, a normal return inside a block to its commit, and outside any
\* block the request ends; a button click whose move returned goes on to
\* render the view.
Return(t) ==
    /\ pc[t] = "return"
    /\ IF loc[t].depth > 0
       THEN /\ pc' = [pc EXCEPT ![t] =
                    IF loc[t].err # "none" THEN "rollback" ELSE "tx_commit"]
            /\ UNCHANGED <<res, loc>>
       ELSE IF loc[t].err = "none" /\ loc[t].out = "ok" /\ op[t].mode \in Buttons
       THEN /\ pc' = [pc EXCEPT ![t] = "render"]
            /\ UNCHANGED <<res, loc>>
       ELSE /\ pc' = [pc EXCEPT ![t] = "idle"]
            /\ res' = [res EXCEPT ![t] =
                    IF loc[t].err # "none" THEN loc[t].err ELSE loc[t].out]
            /\ loc' = [loc EXCEPT ![t] = [InitLoc EXCEPT !.at = loc[t].at]]
    /\ UNCHANGED <<tbl, committed, in_transaction, op, pre, nops, faults>>

\* ---------------------------------------------------------------- cogs/profile.py
\* A request arrives: one of the commands, for a user, an item and the
\* command's other arguments.
Request(cmd, u, k, target, mode, payload) ==
    [cmd |-> cmd, user |-> u, key |-> k, new_pos |-> target,
     mode |-> mode, payload |-> payload, wrapped |-> FALSE]

Requests ==
    {Request(cmd, u, k, 0, "none", x) :
        cmd \in AddCmds \cap {"addepic"}, u \in Users, k \in AskedKeys, x \in PayloadsOf("addepic")}
    \cup {Request("addwish", u, k, 0, "none", x) :
        u \in Users, k \in AskedKeys, x \in PayloadsOf("addwish")}
    \cup {Request("addartist", u, k, 0, "none", x) :
        u \in Users, k \in AskedKeys, x \in PayloadsOf("addartist")}
    \cup {Request(cmd, u, k, 0, "none", NoPayload) :
        cmd \in {"wishcurrent", "favartistcurrent"} \cup DelCmds, u \in Users, k \in AskedKeys}
    \cup {Request(cmd, u, k, target, "none", NoPayload) :
        cmd \in MoveCmds, u \in Users, k \in AskedKeys, target \in Targets}
    \cup {Request("sortepics", u, "k1", 0, mode, NoPayload) :
        u \in Users, mode \in ModesOf("sortepics") \ {"manual"}}
    \cup {Request("sortwishes", u, "k1", 0, mode, NoPayload) :
        u \in Users, mode \in ModesOf("sortwishes") \ {"manual"}}
    \cup {Request("sortartists", u, "k1", 0, mode, NoPayload) :
        u \in Users, mode \in ModesOf("sortartists") \ {"manual"}}
    \cup {Request(cmd, u, k, 0, "manual", NoPayload) :
        cmd \in SortCmds, u \in Users, k \in AskedKeys}

\* The first store round trip of each command.
FirstPc(cmd) ==
    IF cmd \in AddCmds \cup SortCmds \cup {"delartist", "setbadge"} THEN "ensure_user"
    ELSE "fetch_pos"

Start(t) ==
    /\ pc[t] = "idle"
    /\ nops < MaxOps
    /\ \E r \in Requests :
        /\ op' = [op EXCEPT ![t] = r]
        /\ pc' = [pc EXCEPT ![t] = FirstPc(r.cmd)]
    /\ loc' = [loc EXCEPT ![t] = InitLoc]
    /\ res' = [res EXCEPT ![t] = "none"]
    /\ pre' = [pre EXCEPT ![t] = tbl]
    /\ nops' = nops + 1
    /\ UNCHANGED <<tbl, committed, in_transaction, faults>>

\* A handler whose manual mode rewrites the positions as mode name does.
EnsureUser_ManualSorts(t) ==
    /\ pc[t] = "ensure_user"
    /\ Execute(t, tbl, "fetch_sorted", loc[t])

\* ensure_user: INSERT INTO users(user_id) VALUES(?) ON CONFLICT DO NOTHING
\* and the handler's checks of its arguments up to its next round trip.
EnsureUser(t) ==
    /\ pc[t] = "ensure_user"
    /\ LET cmd == op[t].cmd
           key == op[t].key
       IN  CASE cmd \in AddCmds ->
                    IF key = NoSong
                    THEN Execute(t, tbl, "return", [loc[t] EXCEPT !.out = "song_not_found"])
                    ELSE Execute(t, tbl, "upsert", loc[t])
             [] cmd = "delartist" -> Execute(t, tbl, "fetch_pos", loc[t])
             [] cmd = "setbadge" ->
                    IF key = BadItem
                    THEN Execute(t, tbl, "return", [loc[t] EXCEPT !.out = "invalid"])
                    ELSE Execute(t, tbl, "fetch_fav", loc[t])
             [] op[t].mode = "manual" ->
                    IF key = NoItem
                    THEN Execute(t, tbl, "return", [loc[t] EXCEPT !.out = "prompt"])
                    ELSE IF key = BadItem
                    THEN Execute(t, tbl, "return", [loc[t] EXCEPT !.out = "invalid"])
                    ELSE Execute(t, tbl, "fetch_pos", loc[t])
             [] OTHER -> Execute(t, tbl, "fetch_sorted", loc[t])

\* spotify.upsert_track / INSERT INTO artists(name) ... ON CONFLICT DO NOTHING
Upsert(t) ==
    /\ pc[t] = "upsert"
    /\ Execute(t, tbl,
            IF op[t].cmd \in {"addartist", "favartistcurrent"} THEN "fetch_id"
            ELSE "exists",
            loc[t])

\* SELECT artist_id FROM artists WHERE name=?
FetchId(t) ==
    /\ pc[t] = "fetch_id"
    /\ Fetch(t, IF op[t].cmd = "addartist" THEN "exists" ELSE "bump", loc[t])

\* An addepic that looks for the Epic by track_id and epic_number.
FetchExists_BySerial(t) ==
    /\ pc[t] = "exists"
    /\ LET exists == Cur(t)[op[t].key].position # 0
           cmd == op[t].cmd
       IN  IF ~exists THEN Fetch(t, "bump", loc[t])
           ELSE CASE cmd = "addepic" ->
                        Fetch(t, "return", [loc[t] EXCEPT !.out = "rejected"])
                  [] cmd = "addwish" -> Fetch(t, "update_payload", loc[t])
                  [] cmd = "addartist" /\ op[t].payload # NoPayload ->
                        Fetch(t, "update_payload", loc[t])
                  [] OTHER -> Fetch(t, "return", [loc[t] EXCEPT !.out = "ok"])

\* SELECT 1 FROM <table> WHERE user_id=? AND <key>=?, and the branch on it;
\* addepic looks for any Epic of the track (WHERE user_id=? AND track_id=?).
FetchExists(t) ==
    /\ pc[t] = "exists"
    /\ LET cmd == op[t].cmd
           exists ==
                IF cmd = "addepic"
                THEN \E j \in Present(Cur(t)) : TrackOf[j] = TrackOf[op[t].key]
                ELSE Cur(t)[op[t].key].position # 0
       IN  IF ~exists THEN Fetch(t, "bump", loc[t])
           ELSE CASE cmd = "addepic" ->
                        Fetch(t, "return", [loc[t] EXCEPT !.out = "rejected"])
                  [] cmd = "addwish" -> Fetch(t, "update_payload", loc[t])
                  [] cmd = "addartist" /\ op[t].payload # NoPayload ->
                        Fetch(t, "update_payload", loc[t])
                  [] OTHER -> Fetch(t, "return", [loc[t] EXCEPT !.out = "ok"])

\* _bump_positions: every entry of the user in the table moves down by one.
BumpPositions(t) ==
    /\ pc[t] = "bump"
    /\ Execute(t, WithList(t, BumpAll(Cur(t))), "insert", loc[t])

\* The INSERT of an add at the position _bump_positions returned.  A row
\* with the same key makes favartistcurrent's ON CONFLICT DO NOTHING skip
\* the insert and every other INSERT fail on the unique key.
InsertEntry(t) ==
    /\ pc[t] = "insert"
    /\ IF Cur(t)[op[t].key].position = 0
       THEN Execute(t,
                WithList(t, InsertRow(Cur(t), op[t].key, TopPosition, op[t].payload)),
                "return", [loc[t] EXCEPT !.out = "ok"])
       ELSE IF op[t].cmd = "favartistcurrent"
       THEN Execute(t, tbl, "return", [loc[t] EXCEPT !.out = "ok"])
       ELSE /\ in_transaction' = TRUE
            /\ pc' = [pc EXCEPT ![t] = "return"]
            /\ loc' = [loc EXCEPT ![t].err = "IntegrityError", ![t].call = "execute"]
            /\ UNCHANGED <<tbl, committed, op, res, pre, nops, faults>>

\* UPDATE ... SET note=? / SET badge=? for an entry the user already has.
UpdatePayload(t) ==
    /\ pc[t] = "update_payload"
    /\ Execute(t, WithList(t, SetPayload(Cur(t), op[t].key, op[t].payload)),
            IF op[t].wrapped THEN "fetch_pos" ELSE "return",
            [loc[t] EXCEPT !.out = "ok"])

\* A move without "if row is None: raise ValueError(...)": the missing row
\* counts as an entry at position 1.
FetchPosition_MoveUnchecked(t) ==
    /\ pc[t] = "fetch_pos"
    /\ LET row == Cur(t)[op[t].key]
           cmd == op[t].cmd
       IN  CASE cmd \in MoveCmds ->
                    Fetch(t, "fetch_max",
                        [loc[t] EXCEPT !.old_pos = OrOne(row.position),
                                       !.new_pos = ClampLow(op[t].new_pos)])
             [] row.position = 0 ->
                    Fetch(t, "return", [loc[t] EXCEPT !.out = "notfound"])
             [] cmd \in DelCmds ->
                    Fetch(t, "begin", [loc[t] EXCEPT !.old_pos = OrOne(row.position)])
             [] OTHER -> Fetch(t, "return", [loc[t] EXCEPT !.out = "view"])

\* A delete without "if not row: ... return": the missing row counts as an
\* entry at position 1.
FetchPosition_DeleteUnchecked(t) ==
    /\ pc[t] = "fetch_pos"
    /\ LET row == Cur(t)[op[t].key]
           cmd == op[t].cmd
       IN  CASE cmd \in DelCmds ->
                    Fetch(t, "begin", [loc[t] EXCEPT !.old_pos = OrOne(row.position)])
             [] row.position = 0 /\ cmd \in MoveCmds ->
                    Fetch(t, "return", [loc[t] EXCEPT !.err = "ValueError"])
             [] row.position = 0 ->
                    Fetch(t, "return", [loc[t] EXCEPT !.out = "notfound"])
             [] cmd \in MoveCmds ->
                    Fetch(t, "fetch_max",
                        [loc[t] EXCEPT !.old_pos = OrOne(row.position),
                                       !.new_pos = ClampLow(op[t].new_pos)])
             [] OTHER -> Fetch(t, "return", [loc[t] EXCEPT !.out = "view"])

\* SELECT position FROM <table> WHERE user_id=? AND <key>=? of a move, a
\* delete or a manual sort, with "old_pos = row['position'] or 1" and the
\* lower clamp of new_pos.
FetchPosition(t) ==
    /\ pc[t] = "fetch_pos"
    /\ LET row == Cur(t)[op[t].key]
           cmd == op[t].cmd
       IN  IF row.position = 0
           THEN IF cmd \in MoveCmds
                THEN Fetch(t, "return", [loc[t] EXCEPT !.err = "ValueError"])
                ELSE Fetch(t, "return", [loc[t] EXCEPT !.out = "notfound"])
           ELSE CASE cmd \in MoveCmds ->
                        Fetch(t, "fetch_max",
                            [loc[t] EXCEPT !.old_pos = OrOne(row.position),
                                           !.new_pos = ClampLow(op[t].new_pos)])
                  [] cmd \in DelCmds ->
                        Fetch(t, "begin", [loc[t] EXCEPT !.old_pos = OrOne(row.position)])
                  [] OTHER -> Fetch(t, "return", [loc[t] EXCEPT !.out = "view"])

\* SELECT COALESCE(MAX(position), 0) ..., "max_pos = maxp or 1", the upper
\* clamp and the early return of a move to the entry's own position.
FetchMax(t) ==
    /\ pc[t] = "fetch_max"
    /\ LET max_pos == OrOne(MaxPosition(Cur(t)))
           new_pos == ClampHigh(loc[t].new_pos, max_pos)
           l == [loc[t] EXCEPT !.max_pos = max_pos, !.new_pos = new_pos]
       IN  IF loc[t].old_pos = new_pos
           THEN Fetch(t, "return", [l EXCEPT !.out = "ok"])
           ELSE Fetch(t, "begin", l)

\* The range UPDATE of a move.
Shift(t) ==
    /\ pc[t] = "shift"
    /\ Execute(t, WithList(t, ShiftRange(Cur(t), loc[t].new_pos, loc[t].old_pos)),
            "set_pos", loc[t])

\* UPDATE ... SET position=new_pos for the moved entry.
SetMoved(t) ==
    /\ pc[t] = "set_pos"
    /\ Execute(t, WithList(t, SetPosition(Cur(t), op[t].key, loc[t].new_pos)),
            "tx_commit", loc[t])

\* The DELETE of delepic/delwish/delartist.
Delete(t) ==
    /\ pc[t] = "delete"
    /\ Execute(t, WithList(t, DeleteRow(Cur(t), op[t].key)), "compact", loc[t])

\* The compaction UPDATE of a delete.
Compact(t) ==
    /\ pc[t] = "compact"
    /\ Execute(t, WithList(t, CompactAfter(Cur(t), loc[t].old_pos)), "tx_commit", loc[t])

\* The ordered SELECT of a sort by name or by badge.
FetchSorted(t) ==
    /\ pc[t] = "fetch_sorted"
    /\ \E rows \in SortedRows(op[t].mode, Cur(t)) :
        Fetch(t, "begin", [loc[t] EXCEPT !.rows = rows])

\* A loop that stores twice the index (SET position = 2 * idx).
SortUpdate_Doubled(t) ==
    /\ pc[t] = "sort_update"
    /\ LET i == loc[t].idx
       IN  Execute(t, WithList(t, SetPosition(Cur(t), loc[t].rows[i], 2 * i)),
                IF i = Len(loc[t].rows) THEN "tx_commit" ELSE "sort_update",
                [loc[t] EXCEPT !.idx = i + 1])

\* "for idx, r in enumerate(rows, start=1)": one UPDATE ... SET position=idx.
SortUpdate(t) ==
    /\ pc[t] = "sort_update"
    /\ LET i == loc[t].idx
       IN  Execute(t, WithList(t, SetPosition(Cur(t), loc[t].rows[i], i)),
                IF i = Len(loc[t].rows) THEN "tx_commit" ELSE "sort_update",
                [loc[t] EXCEPT !.idx = i + 1])

\* A setbadge without "if not row: ... return".
FetchFavourite_Unchecked(t) ==
    /\ pc[t] = "fetch_fav"
    /\ Fetch(t, "set_badge", loc[t])

\* setbadge: SELECT a.name FROM user_fav_artists ... WHERE user_id=? AND
\* artist_id=?, and "if not row: ... return".
FetchFavourite(t) ==
    /\ pc[t] = "fetch_fav"
    /\ IF Cur(t)[op[t].key].position = 0
       THEN Fetch(t, "return", [loc[t] EXCEPT !.out = "notfavourite"])
       ELSE Fetch(t, "set_badge", loc[t])

\* setbadge: UPDATE user_fav_artists SET badge=? WHERE user_id=? AND artist_id=?
SetBadge(t) ==
    /\ pc[t] = "set_badge"
    /\ Execute(t, WithList(t, SetPayload(Cur(t), op[t].key, op[t].payload)),
            "return", [loc[t] EXCEPT !.out = "ok"])

\* A button that moves from the position the entry had as the process
\* started (a position kept in the view) instead of reading it.
GetPosition_Kept(t) ==
    /\ pc[t] = "get_position"
    /\ LET pos == InitTables[KindOf(op[t].cmd)][op[t].user][op[t].key].position
       IN  op' = [op EXCEPT ![t].new_pos =
                    IF op[t].mode = "up" THEN pos - 1 ELSE pos + 1]
    /\ pc' = AfterStatement(t, "fetch_pos")
    /\ loc' = [loc EXCEPT ![t].ret = "fetch_pos", ![t].call = "fetch"]
    /\ UNCHANGED <<tbl, committed, in_transaction, res, pre, nops, faults>>

\* move_up / move_down of a move view: "pos = await self._get_position()"
\* (the stored position, 0 when the entry has no row), then the call of
\* move_*_to with pos - 1 or pos + 1 as new_pos.
GetPosition(t) ==
    /\ pc[t] = "get_position"
    /\ LET pos == Cur(t)[op[t].key].position
       IN  op' = [op EXCEPT ![t].new_pos =
                    IF op[t].mode = "up" THEN pos - 1 ELSE pos + 1]
    /\ pc' = AfterStatement(t, "fetch_pos")
    /\ loc' = [loc EXCEPT ![t].ret = "fetch_pos", ![t].call = "fetch"]
    /\ UNCHANGED <<tbl, committed, in_transaction, res, pre, nops, faults>>

\* _render of a move view after the move returned: the entry's row, then
\* the rows at the positions above and below it, then edit_message.
Render(t) ==
    /\ pc[t] \in {"render", "render_above", "render_below"}
    /\ CASE pc[t] = "render" /\ Cur(t)[op[t].key].position # 0 ->
                Fetch(t, "render_above", loc[t])
         [] pc[t] = "render_above" -> Fetch(t, "render_below", loc[t])
         [] OTHER -> Fetch(t, "return", [loc[t] EXCEPT !.out = "edited"])

\* ---------------------------------------------------------------- environment
WritePcs ==
    {"ensure_user", "upsert", "bump", "insert", "update_payload",
     "shift", "set_pos", "delete", "compact", "sort_update"}
ReadPcs == {"fetch_id", "exists", "fetch_pos", "fetch_max", "fetch_sorted"}
BeginPcs == {"begin", "begin_outer"}

\* The store fails the statement task t is about to run: the statement
\* changes no row and raises.  A write that sqlite3 opened a transaction
\* for may leave that transaction open.
StmtFail(t) ==
    /\ faults < MaxFaults
    /\ pc[t] \in WritePcs \cup ReadPcs \cup BeginPcs
    /\ \E leaves \in BOOLEAN :
        in_transaction' = (in_transaction \/ (leaves /\ pc[t] \in WritePcs))
    /\ pc' = [pc EXCEPT ![t] = "return"]
    /\ loc' = [loc EXCEPT ![t].err = "StoreFailure", ![t].at = pc[t],
                           ![t].call = "failed"]
    /\ faults' = faults + 1
    /\ UNCHANGED <<tbl, committed, op, res, pre, nops>>

\* Task t is cancelled at the await it is suspended in: CancelledError is
\* no Exception, so no except clause of transaction() runs; the round trip
\* it had not yet issued is never made.
Cancel(t) ==
    /\ faults < MaxFaults
    /\ pc[t] # "idle"
    /\ pc' = [pc EXCEPT ![t] = "idle"]
    /\ res' = [res EXCEPT ![t] = "Cancelled"]
    /\ loc' = [loc EXCEPT ![t] = [InitLoc EXCEPT !.depth = loc[t].depth, !.at = pc[t]]]
    /\ faults' = faults + 1
    /\ UNCHANGED <<tbl, committed, in_transaction, op, pre, nops>>

\* A caller that sets an artist's badge and moves the artist inside one
\* transaction scope of its own:
\*     async with db.transaction():
\*         await db.execute("UPDATE user_fav_artists SET badge=? ...")
\*         await cog.move_artist_to(user_id, artist_id, new_pos)
StartWrapped(t) ==
    /\ pc[t] = "idle"
    /\ nops < MaxOps
    /\ \E u \in Users, k \in AskedKeys, target \in Targets, x \in GivenBadges :
        op' = [op EXCEPT ![t] =
                [Request("move_artist_to", u, k, target, "none", x)
                    EXCEPT !.wrapped = TRUE]]
    /\ pc' = [pc EXCEPT ![t] = "begin_outer"]
    /\ loc' = [loc EXCEPT ![t] = InitLoc]
    /\ res' = [res EXCEPT ![t] = "none"]
    /\ pre' = [pre EXCEPT ![t] = tbl]
    /\ nops' = nops + 1
    /\ UNCHANGED <<tbl, committed, in_transaction, faults>>

BeginOuter(t) ==
    /\ pc[t] = "begin_outer"
    /\ BeginBlock(t, "update_payload")

\* ---------------------------------------------------------------- specifications
Step(t) ==
    \/ EnsureUser(t) \/ Upsert(t) \/ FetchId(t) \/ FetchExists(t)
    \/ BumpPositions(t) \/ InsertEntry(t) \/ UpdatePayload(t)
    \/ FetchPosition(t) \/ FetchMax(t) \/ Begin(t) \/ Shift(t) \/ SetMoved(t)
    \/ Delete(t) \/ Compact(t) \/ FetchSorted(t) \/ SortUpdate(t)
    \/ Commit(t) \/ TxCommit(t) \/ Rollback(t) \/ Return(t)

\* Requests served one after the other by one task, the store failing
\* statements at will.
Next == Start(1) \/ Step(1) \/ StmtFail(1)
Spec == Init /\ [][Next]_vars

\* The same, with requests cancelled at will.
NextCancel == Next \/ Cancel(1)
SpecCancel == Init /\ [][NextCancel]_vars

\* The caller that wraps a move in its own transaction scope, alone.
NextNested ==
    \/ StartWrapped(1) \/ BeginOuter(1) \/ UpdatePayload(1) \/ FetchPosition(1)
    \/ FetchMax(1) \/ Begin(1) \/ TxCommit(1) \/ Rollback(1) \/ Return(1)
    \/ StmtFail(1)
SpecNested == Init /\ [][NextNested]_vars

\* Two requests in flight at once, each task serving one: the tasks take
\* turns at every store round trip.
ConcRequests ==
    {r \in Requests :
        /\ r.mode # "manual"
        /\ \/ KindOf(r.cmd) = "user_epics"
           \/ r.cmd \in {"addartist", "favartistcurrent"}
                /\ r.key = "k1" /\ r.payload # "Gold"}

StartConc(t) ==
    /\ pc[t] = "idle"
    /\ op[t].cmd = "none"
    /\ \E r \in ConcRequests :
        /\ op' = [op EXCEPT ![t] = r]
        /\ pc' = [pc EXCEPT ![t] = FirstPc(r.cmd)]
    /\ loc' = [loc EXCEPT ![t] = InitLoc]
    /\ res' = [res EXCEPT ![t] = "none"]
    /\ pre' = [pre EXCEPT ![t] = tbl]
    /\ nops' = nops + 1
    /\ UNCHANGED <<tbl, committed, in_transaction, faults>>

NextConc == \E t \in Tasks : StartConc(t) \/ Step(t) \/ StmtFail(t)
SpecConc == Init /\ [][NextConc]_vars

\* A user who starts with empty lists adds and deletes entries, one request
\* after the other, nothing failing.
RoundRequests ==
    {r \in Requests :
        /\ r.user = "u2"
        /\ r.cmd \in {"addepic", "addwish", "addartist"} \cup DelCmds
        /\ r.payload \in {NoPayload, "#1"}}

StartRound(t) ==
    /\ pc[t] = "idle"
    /\ nops < MaxRound
    /\ \E r \in RoundRequests :
        /\ op' = [op EXCEPT ![t] = r]
        /\ pc' = [pc EXCEPT ![t] = FirstPc(r.cmd)]
    /\ loc' = [loc EXCEPT ![t] = InitLoc]
    /\ res' = [res EXCEPT ![t] = "none"]
    /\ pre' = [pre EXCEPT ![t] = tbl]
    /\ nops' = nops + 1
    /\ UNCHANGED <<tbl, committed, in_transaction, faults>>

NextRound ==
    \/ StartRound(1) \/ EnsureUser(1) \/ Upsert(1) \/ FetchId(1)
    \/ FetchExists(1) \/ BumpPositions(1) \/ InsertEntry(1) \/ UpdatePayload(1)
    \/ FetchPosition(1) \/ Begin(1) \/ Delete(1) \/ Compact(1)
    \/ Commit(1) \/ TxCommit(1) \/ Return(1)
SpecRound == Init /\ [][NextRound]_vars

\* A user whose list holds all four catalogue rows, apple and APPLE among
\* them, in any dense arrangement, sorts it by name, and once that sort has
\* ended sorts it by name again.
TieKeys == AskedKeys \cup {"k4"}
TieLists ==
    {[k \in Keys |-> IF k \in TieKeys THEN Row(f[k], NoPayload) ELSE NoRow] :
        f \in {g \in [TieKeys -> 1..Cardinality(TieKeys)] :
                    \A a, b \in TieKeys : a # b => g[a] # g[b]}}

InitTies ==
    /\ tbl \in {[kind \in Kinds |->
                    [u \in Users |-> IF u = "u1" THEN list ELSE EmptyList]] :
                list \in TieLists}
    /\ committed = tbl
    /\ in_transaction = FALSE
    /\ pc = [t \in Tasks |-> "idle"]
    /\ op = [t \in Tasks |-> NoOp]
    /\ loc = [t \in Tasks |-> InitLoc]
    /\ res = [t \in Tasks |-> "none"]
    /\ pre = [t \in Tasks |-> tbl]
    /\ nops = 0
    /\ faults = 0

StartSort(t) ==
    /\ pc[t] = "idle"
    /\ op[t].cmd = "none"
    /\ IF t = 1
       THEN \E cmd \in SortCmds :
                op' = [op EXCEPT ![t] = Request(cmd, "u1", "k1", 0, "name", NoPayload)]
       ELSE /\ pc[1] = "idle" /\ res[1] # "none"
            /\ op' = [op EXCEPT ![t] = op[1]]
    /\ pc' = [pc EXCEPT ![t] = "ensure_user"]
    /\ loc' = [loc EXCEPT ![t] = InitLoc]
    /\ res' = [res EXCEPT ![t] = "none"]
    /\ pre' = [pre EXCEPT ![t] = tbl]
    /\ nops' = nops + 1
    /\ UNCHANGED <<tbl, committed, in_transaction, faults>>

NextTies ==
    \E t \in Tasks :
        \/ StartSort(t) \/ EnsureUser(t) \/ FetchSorted(t) \/ Begin(t)
        \/ SortUpdate(t) \/ Commit(t) \/ TxCommit(t) \/ Return(t)
SpecTies == InitTies /\ [][NextTies]_vars

\* A user whose three favourite artists carry any badges, or none, sorts
\* them by badge, or a user sets the badge of an artist.
BadgeLists ==
    {[k \in Keys |-> IF k \in AskedKeys THEN Row(SeedList[k].position, b[k]) ELSE NoRow] :
        b \in [AskedKeys -> BADGES \cup {NoPayload}]}

InitBadges ==
    /\ tbl \in {[InitTables EXCEPT !["user_fav_artists"]["u1"] = list] :
                list \in BadgeLists}
    /\ committed = tbl
    /\ in_transaction = FALSE
    /\ pc = [t \in Tasks |-> "idle"]
    /\ op = [t \in Tasks |-> NoOp]
    /\ loc = [t \in Tasks |-> InitLoc]
    /\ res = [t \in Tasks |-> "none"]
    /\ pre = [t \in Tasks |-> tbl]
    /\ nops = 0
    /\ faults = 0

BadgeRequests ==
    {Request("sortartists", u, "k1", 0, "badge", NoPayload) : u \in Users}
    \cup {Request("setbadge", u, k, 0, "none", x) :
            u \in Users, k \in AskedKeys \cup {BadItem}, x \in GivenBadges \ {NoPayload}}

StartBadge(t) ==
    /\ pc[t] = "idle"
    /\ op[t].cmd = "none"
    /\ \E r \in BadgeRequests :
        /\ op' = [op EXCEPT ![t] = r]
        /\ pc' = [pc EXCEPT ![t] = FirstPc(r.cmd)]
    /\ loc' = [loc EXCEPT ![t] = InitLoc]
    /\ res' = [res EXCEPT ![t] = "none"]
    /\ pre' = [pre EXCEPT ![t] = tbl]
    /\ nops' = nops + 1
    /\ UNCHANGED <<tbl, committed, in_transaction, faults>>

NextBadges ==
    \/ StartBadge(1) \/ EnsureUser(1) \/ FetchFavourite(1) \/ SetBadge(1)
    \/ FetchSorted(1) \/ Begin(1) \/ SortUpdate(1)
    \/ Commit(1) \/ TxCommit(1) \/ Return(1)
SpecBadges == InitBadges /\ [][NextBadges]_vars

\* A user who has two entries in each list sorts one list by name, and once
\* that sort has ended adds an entry to the same list or deletes one from it.
PolicyLists ==
    {[k \in Keys |-> IF k \in AskedKeys THEN Row(f[k], NoPayload) ELSE NoRow] :
        f \in {g \in [AskedKeys -> 0..2] :
                    \E a, b \in AskedKeys : g[a] = 1 /\ g[b] = 2
                        /\ \A k \in AskedKeys \ {a, b} : g[k] = 0}}

InitPolicy ==
    /\ tbl \in {[kind \in Kinds |->
                    [u \in Users |-> IF u = "u1" THEN list ELSE EmptyList]] :
                list \in PolicyLists}
    /\ committed = tbl
    /\ in_transaction = FALSE
    /\ pc = [t \in Tasks |-> "idle"]
    /\ op = [t \in Tasks |-> NoOp]
    /\ loc = [t \in Tasks |-> InitLoc]
    /\ res = [t \in Tasks |-> "none"]
    /\ pre = [t \in Tasks |-> tbl]
    /\ nops = 0
    /\ faults = 0

StartPolicy(t) ==
    /\ pc[t] = "idle"
    /\ op[t].cmd = "none"
    /\ IF t = 1
       THEN \E cmd \in SortCmds :
                op' = [op EXCEPT ![t] = Request(cmd, "u1", "k1", 0, "name", NoPayload)]
       ELSE /\ pc[1] = "idle" /\ res[1] # "none"
            /\ \E r \in Requests :
                /\ r.cmd \in AddCmds \cup DelCmds
                /\ r.user = op[1].user
                /\ KindOf(r.cmd) = KindOf(op[1].cmd)
                /\ op' = [op EXCEPT ![t] = r]
    /\ pc' = [pc EXCEPT ![t] = FirstPc(op'[t].cmd)]
    /\ loc' = [loc EXCEPT ![t] = InitLoc]
    /\ res' = [res EXCEPT ![t] = "none"]
    /\ pre' = [pre EXCEPT ![t] = tbl]
    /\ nops' = nops + 1
    /\ UNCHANGED <<tbl, committed, in_transaction, faults>>

NextPolicy ==
    \E t \in Tasks :
        \/ StartPolicy(t) \/ EnsureUser(t) \/ Upsert(t) \/ FetchId(t)
        \/ FetchExists(t) \/ BumpPositions(t) \/ InsertEntry(t) \/ UpdatePayload(t)
        \/ FetchPosition(t) \/ Begin(t) \/ Delete(t) \/ Compact(t)
        \/ FetchSorted(t) \/ SortUpdate(t)
        \/ Commit(t) \/ TxCommit(t) \/ Return(t)
SpecPolicy == InitPolicy /\ [][NextPolicy]_vars

\* The sort commands in every mode, one request after the other; in manual
\* mode with an item of the catalogue, with no item, or with a string that
\* is no item (sortwishes takes any string as a track id).
ManualRequests ==
    {r \in Requests : r.cmd \in SortCmds}
    \cup {Request(cmd, u, NoItem, 0, "manual", NoPayload) : cmd \in SortCmds, u \in Users}
    \cup {Request(cmd, u, BadItem, 0, "manual", NoPayload) :
            cmd \in SortCmds \ {"sortwishes"}, u \in Users}

StartManual(t) ==
    /\ pc[t] = "idle"
    /\ nops < MaxOps
    /\ \E r \in ManualRequests :
        /\ op' = [op EXCEPT ![t] = r]
        /\ pc' = [pc EXCEPT ![t] = FirstPc(r.cmd)]
    /\ loc' = [loc EXCEPT ![t] = InitLoc]
    /\ res' = [res EXCEPT ![t] = "none"]
    /\ pre' = [pre EXCEPT ![t] = tbl]
    /\ nops' = nops + 1
    /\ UNCHANGED <<tbl, committed, in_transaction, faults>>

NextManual ==
    \/ StartManual(1) \/ EnsureUser(1) \/ FetchPosition(1) \/ FetchSorted(1)
    \/ Begin(1) \/ SortUpdate(1) \/ Commit(1) \/ TxCommit(1) \/ Return(1)
SpecManual == Init /\ [][NextManual]_vars

\* addepic and addwish with every kind of argument, one request after the
\* other: a track of the catalogue or one spotify does not find, a serial
\* number above or not above 0.  addepic looks the track up and checks the
\* number before its first store round trip, so a request it refuses there
\* ends as it arrives.
AddsRequests ==
    {Request("addepic", u, ItemOf(k, x), 0, "none", x) :
        u \in Users, k \in {"k1", "k2", NoSong}, x \in EpicNumbers}
    \cup {Request("addwish", u, k, 0, "none", x) :
            u \in Users, k \in {"k1", "k2", NoSong}, x \in {NoPayload}}

StartAdds(t) ==
    /\ pc[t] = "idle"
    /\ nops < MaxRound
    /\ \E r \in AddsRequests :
        /\ op' = [op EXCEPT ![t] = r]
        /\ IF r.cmd = "addepic" /\ r.key = NoSong
           THEN /\ pc' = pc
                /\ res' = [res EXCEPT ![t] = "song_not_found"]
           ELSE IF r.cmd = "addepic" /\ BadNumber(r.payload)
           THEN /\ pc' = pc
                /\ res' = [res EXCEPT ![t] = "bad_number"]
           ELSE /\ pc' = [pc EXCEPT ![t] = FirstPc(r.cmd)]
                /\ res' = [res EXCEPT ![t] = "none"]
    /\ loc' = [loc EXCEPT ![t] = InitLoc]
    /\ pre' = [pre EXCEPT ![t] = tbl]
    /\ nops' = nops + 1
    /\ UNCHANGED <<tbl, committed, in_transaction, faults>>

NextAdds ==
    \/ StartAdds(1) \/ EnsureUser(1) \/ Upsert(1) \/ FetchExists(1)
    \/ BumpPositions(1) \/ InsertEntry(1) \/ UpdatePayload(1)
    \/ Commit(1) \/ Return(1)
SpecAdds == Init /\ [][NextAdds]_vars

\* ---------------------------------------------------------------- core/util.py
\* chunked(sequence, size): the generator, one step per pass of its loop.
\* Task 1 iterates it to the end; op holds the arguments, loc the
\* generator's frame (chunk, the number of items taken from sequence) and
\* the chunks yielded so far.
Items == {"a", "b"}
ChunkInputs == UNION {[1..n -> Items] : n \in 0..MaxLen}
Sizes == -1..MaxSize

InitChunked ==
    /\ tbl = InitTables
    /\ committed = InitTables
    /\ in_transaction = FALSE
    /\ \E sequence \in ChunkInputs, size \in Sizes :
        op = [t \in Tasks |->
                IF t = 1 THEN [cmd |-> "chunked", sequence |-> sequence, size |-> size]
                ELSE NoOp]
    /\ pc = [t \in Tasks |-> IF t = 1 THEN "chunked" ELSE "idle"]
    /\ loc = [t \in Tasks |->
                IF t = 1 THEN [chunk |-> <<>>, idx |-> 0, yielded |-> <<>>]
                ELSE InitLoc]
    /\ res = [t \in Tasks |-> "none"]
    /\ pre = [t \in Tasks |-> InitTables]
    /\ nops = 0
    /\ faults = 0

\* The first next(): "if size <= 0: raise ValueError(...)", "chunk = []".
ChunkedEnter(t) ==
    /\ pc[t] = "chunked"
    /\ IF op[t].size <= 0
       THEN /\ pc' = [pc EXCEPT ![t] = "idle"]
            /\ res' = [res EXCEPT ![t] = "ValueError"]
       ELSE /\ pc' = [pc EXCEPT ![t] = "for_item"]
            /\ UNCHANGED res
    /\ UNCHANGED <<tbl, committed, in_transaction, op, loc, pre, nops, faults>>

\* "for item in sequence: chunk.append(item); if len(chunk) == size: yield
\* chunk; chunk = []".
ChunkedItem(t) ==
    /\ pc[t] = "for_item"
    /\ loc[t].idx < Len(op[t].sequence)
    /\ LET chunk == Append(loc[t].chunk, op[t].sequence[loc[t].idx + 1])
       IN  loc' = [loc EXCEPT ![t] =
                IF Len(chunk) = op[t].size
                THEN [chunk |-> <<>>, idx |-> loc[t].idx + 1,
                      yielded |-> Append(loc[t].yielded, chunk)]
                ELSE [chunk |-> chunk, idx |-> loc[t].idx + 1,
                      yielded |-> loc[t].yielded]]
    /\ UNCHANGED <<tbl, committed, in_transaction, pc, op, res, pre, nops, faults>>

\* A generator that ends without yielding the chunk it was filling.
ChunkedTail_Dropped(t) ==
    /\ pc[t] = "for_item"
    /\ loc[t].idx = Len(op[t].sequence)
    /\ pc' = [pc EXCEPT ![t] = "idle"]
    /\ res' = [res EXCEPT ![t] = "exhausted"]
    /\ loc' = [loc EXCEPT ![t].chunk = <<>>]
    /\ UNCHANGED <<tbl, committed, in_transaction, op, pre, nops, faults>>

\* After the loop: "if chunk: yield chunk", and the generator is exhausted.
ChunkedTail(t) ==
    /\ pc[t] = "for_item"
    /\ loc[t].idx = Len(op[t].sequence)
    /\ pc' = [pc EXCEPT ![t] = "idle"]
    /\ res' = [res EXCEPT ![t] = "exhausted"]
    /\ loc' = [loc EXCEPT ![t].chunk = <<>>,
                           ![t].yielded =
                                IF loc[t].chunk # <<>> THEN Append(@, loc[t].chunk) ELSE @]
    /\ UNCHANGED <<tbl, committed, in_transaction, op, pre, nops, faults>>

NextChunked == ChunkedEnter(1) \/ ChunkedItem(1) \/ ChunkedTail(1)
SpecChunked == InitChunked /\ [][NextChunked]_vars

\* Clicks on the buttons of move views among adds, deletes and moves of
\* the same user, one request after the other.  A view holds the user and
\* the item it was created for, so a click may come for any item, also one
\* the user has no entry for any more.
ClickRequests ==
    {Request(cmd, "u1", k, 0, button, NoPayload) :
        cmd \in MoveCmds, k \in AskedKeys, button \in Buttons}

ViewRequests ==
    ClickRequests
    \cup {r \in Requests :
            /\ r.user = "u1"
            /\ r.cmd \in {"addepic", "addwish", "addartist"} \cup DelCmds \cup MoveCmds
            /\ r.payload \in {NoPayload, "#1"}}

StartViews(t) ==
    /\ pc[t] = "idle"
    /\ nops < MaxOps
    /\ \E r \in ViewRequests :
        /\ op' = [op EXCEPT ![t] = r]
        /\ pc' = [pc EXCEPT ![t] =
                    IF r.mode \in Buttons THEN "get_position" ELSE FirstPc(r.cmd)]
    /\ loc' = [loc EXCEPT ![t] = InitLoc]
    /\ res' = [res EXCEPT ![t] = "none"]
    /\ pre' = [pre EXCEPT ![t] = tbl]
    /\ nops' = nops + 1
    /\ UNCHANGED <<tbl, committed, in_transaction, faults>>

NextViews ==
    \/ StartViews(1) \/ GetPosition(1) \/ Render(1)
    \/ EnsureUser(1) \/ Upsert(1) \/ FetchId(1) \/ FetchExists(1)
    \/ BumpPositions(1) \/ InsertEntry(1) \/ UpdatePayload(1)
    \/ FetchPosition(1) \/ FetchMax(1) \/ Begin(1) \/ Shift(1) \/ SetMoved(1)
    \/ Delete(1) \/ Compact(1) \/ Commit(1) \/ TxCommit(1) \/ Return(1)
SpecViews == Init /\ [][NextViews]_vars

\* An entry of a list is moved to a position of the list, and once that
\* move has returned it is moved to the position it came from.
StartInverse(t) ==
    /\ pc[t] = "idle"
    /\ op[t].cmd = "none"
    /\ IF t = 1
       THEN \E cmd \in MoveCmds, k \in AskedKeys :
                \E target \in 1..MaxPosition(tbl[KindOf(cmd)]["u1"]) :
                    op' = [op EXCEPT ![t] = Request(cmd, "u1", k, target, "none", NoPayload)]
       ELSE /\ pc[1] = "idle" /\ res[1] = "ok"
            /\ op' = [op EXCEPT ![t] =
                    [op[1] EXCEPT !.new_pos =
                        pre[1][KindOf(op[1].cmd)][op[1].user][op[1].key].position]]
    /\ pc' = [pc EXCEPT ![t] = "fetch_pos"]
    /\ loc' = [loc EXCEPT ![t] = InitLoc]
    /\ res' = [res EXCEPT ![t] = "none"]
    /\ pre' = [pre EXCEPT ![t] = tbl]
    /\ nops' = nops + 1
    /\ UNCHANGED <<tbl, committed, in_transaction, faults>>

NextInverse ==
    \E t \in Tasks :
        \/ StartInverse(t) \/ FetchPosition(t) \/ FetchMax(t) \/ Begin(t)
        \/ Shift(t) \/ SetMoved(t) \/ Commit(t) \/ TxCommit(t) \/ Return(t)
SpecInverse == Init /\ [][NextInverse]_vars

\* A user's list as the store may hold it: any of the four catalogue rows
\* present or not, the stored positions with gaps, with duplicates and with
\* values that are no position of a list.  As 0 stands for "no such row", a
\* stored position of NULL or zero is written -1.
StoredPositions == {-1, 1, 2, 4}
MessyLists ==
    {[k \in Keys |-> IF k \in TieKeys /\ f[k] # 0 THEN Row(f[k], NoPayload) ELSE NoRow] :
        f \in [TieKeys -> StoredPositions \cup {0}]}

InitMessy ==
    /\ tbl \in {[kind \in Kinds |->
                    [u \in Users |-> IF u = "u1" THEN list ELSE EmptyList]] :
                list \in MessyLists}
    /\ committed = tbl
    /\ in_transaction = FALSE
    /\ pc = [t \in Tasks |-> "idle"]
    /\ op = [t \in Tasks |-> NoOp]
    /\ loc = [t \in Tasks |-> InitLoc]
    /\ res = [t \in Tasks |-> "none"]
    /\ pre = [t \in Tasks |-> tbl]
    /\ nops = 0
    /\ faults = 0

\* The user sorts one of the lists by name or by badge.
StartMessy(t) ==
    /\ pc[t] = "idle"
    /\ op[t].cmd = "none"
    /\ \E cmd \in SortCmds :
        \E mode \in ModesOf(cmd) \ {"manual"} :
            op' = [op EXCEPT ![t] = Request(cmd, "u1", "k1", 0, mode, NoPayload)]
    /\ pc' = [pc EXCEPT ![t] = "ensure_user"]
    /\ loc' = [loc EXCEPT ![t] = InitLoc]
    /\ res' = [res EXCEPT ![t] = "none"]
    /\ pre' = [pre EXCEPT ![t] = tbl]
    /\ nops' = nops + 1
    /\ UNCHANGED <<tbl, committed, in_transaction, faults>>

NextMessy ==
    \/ StartMessy(1) \/ EnsureUser(1) \/ FetchSorted(1) \/ Begin(1)
    \/ SortUpdate(1) \/ Commit(1) \/ TxCommit(1) \/ Return(1)
SpecMessy == InitMessy /\ [][NextMessy]_vars

\* ---------------------------------------------------------------- properties
AllIdle == \A t \in Tasks : pc[t] = "idle"

\* Task t's request has ended (res says how); op, pre and tbl are the
\* request, the tables before it and the tables after it.
Ended(t) == pc[t] = "idle" /\ res[t] # "none"

ListOf(tables, r) == tables[KindOf(r.cmd)][r.user]

\* C1: after any sequence of completed, non-overlapping adds, moves,
\* deletes and sorts (no store failure, no cancellation), the stored
\* positions of every user's N entries of every list kind are exactly 1..N.
C1_DensityInvariant ==
    (AllIdle /\ faults = 0) =>
        \A kind \in Kinds, u \in Users : Dense(tbl[kind][u])

\* C2: a completed move of entry e of a dense list from position old to
\* target t (clamped into 1..N) leaves e at t, raises by one every entry
\* formerly in [t, old-1] when t < old, lowers by one every entry formerly
\* in [old+1, t] when t > old, and leaves every other entry where it was;
\* from k1,k2,k3 at 1,2,3, moving k3 to 1 gives k3,k1,k2 and then moving k1
\* to 3 gives k3,k2,k1.
MoveExpected(before, key, target) ==
    LET n == Cardinality(Present(before))
        old == before[key].position
        t == IF target < 1 THEN 1 ELSE IF target > n THEN n ELSE target
    IN  [k \in Keys |->
            IF k = key THEN t
            ELSE IF t < old /\ before[k].position \in t..(old - 1)
                 THEN before[k].position + 1
            ELSE IF t > old /\ before[k].position \in (old + 1)..t
                 THEN before[k].position - 1
            ELSE before[k].position]

PositionsOf(list) == [k \in Keys |-> list[k].position]

Order(a, b, c) == [k \in Keys |-> CASE k = a -> 1 [] k = b -> 2 [] k = c -> 3 [] OTHER -> 0]

C2_MoveResult ==
    \A t \in Tasks :
        (/\ Ended(t) /\ res[t] = "ok"
         /\ op[t].cmd \in MoveCmds /\ ~op[t].wrapped
         /\ Dense(ListOf(pre[t], op[t]))
         /\ op[t].key \in Present(ListOf(pre[t], op[t])))
        => /\ PositionsOf(ListOf(tbl, op[t]))
                = MoveExpected(ListOf(pre[t], op[t]), op[t].key, op[t].new_pos)
           /\ (PositionsOf(ListOf(pre[t], op[t])) = Order("k1", "k2", "k3")
                    /\ op[t].key = "k3" /\ op[t].new_pos = 1)
                => PositionsOf(ListOf(tbl, op[t])) = Order("k3", "k1", "k2")
           /\ (PositionsOf(ListOf(pre[t], op[t])) = Order("k3", "k1", "k2")
                    /\ op[t].key = "k1" /\ op[t].new_pos = 3)
                => PositionsOf(ListOf(tbl, op[t])) = Order("k3", "k2", "k1")

\* The second move of the scenario has run: k1 moved to 3 in k3,k1,k2.
C2_Witness ==
    /\ Ended(1) /\ res[1] = "ok"
    /\ op[1].cmd = "move_epic_to" /\ op[1].key = "k1" /\ op[1].new_pos = 3
    /\ PositionsOf(ListOf(pre[1], op[1])) = Order("k3", "k1", "k2")
    /\ PositionsOf(ListOf(tbl, op[1])) = Order("k3", "k2", "k1")

\* What a move, a delete and a sort leave of a list when nothing else
\* touches the store between their first and their last round trip.
MoveAlone(list, key, target) ==
    IF list[key].position = 0 THEN list
    ELSE LET old_pos == OrOne(list[key].position)
             new_pos == ClampHigh(ClampLow(target), OrOne(MaxPosition(list)))
         IN  IF old_pos = new_pos THEN list
             ELSE SetPosition(ShiftRange(list, new_pos, old_pos), key, new_pos)

DeleteAlone(list, key) ==
    IF list[key].position = 0 THEN list
    ELSE CompactAfter(DeleteRow(list, key), OrOne(list[key].position))

SortAlone(mode, list) ==
    {[k \in Keys |->
        IF list[k].position = 0 THEN list[k]
        ELSE [list[k] EXCEPT !.position =
                CHOOSE i \in 1..Len(rows) : rows[i] = k]] :
     rows \in SortedRows(mode, list)}

Alone(r, list) ==
    CASE r.cmd \in MoveCmds -> {MoveAlone(list, r.key, r.new_pos)}
      [] r.cmd \in DelCmds -> {DeleteAlone(list, r.key)}
      [] OTHER -> SortAlone(r.mode, list)

Serial(r1, r2, list) ==
    UNION {Alone(r2, l) : l \in Alone(r1, list)}
    \cup UNION {Alone(r1, l) : l \in Alone(r2, list)}

NoSharedPosition(list) ==
    \A a, b \in Present(list) : a # b => list[a].position # list[b].position

SameList(r1, r2) == r1.user = r2.user /\ KindOf(r1.cmd) = KindOf(r2.cmd)

\* C3: two moves, a move and a delete, or a move/delete and a sort by
\* name/badge, on the same user and list kind and interleaved at their store
\* round trips, both ending without error, leave the positions that one of
\* the two serial orders leaves, and those positions are 1..N.
C3_Serializable ==
    (/\ Ended(1) /\ Ended(2) /\ faults = 0
     /\ res[1] = "ok" /\ res[2] = "ok"
     /\ op[1].cmd \in MoveCmds \cup DelCmds \cup SortCmds
     /\ op[2].cmd \in MoveCmds \cup DelCmds \cup SortCmds
     /\ SameList(op[1], op[2]))
    => /\ ListOf(tbl, op[1])
            \in Serial(op[1], op[2], ListOf(InitTables, op[1]))
       /\ Dense(ListOf(tbl, op[1]))

\* C4: two adds for the same user and list kind that overlap in time, both
\* ended without error, never leave two entries of that list sharing a
\* position.
C4_AddsNeverSharePosition ==
    (/\ Ended(1) /\ Ended(2) /\ faults = 0
     /\ res[1] = "ok" /\ res[2] = "ok"
     /\ op[1].cmd \in AddCmds /\ op[2].cmd \in AddCmds
     /\ SameList(op[1], op[2]))
    => NoSharedPosition(ListOf(tbl, op[1]))

\* The statements of a move, a delete or a sort.
BlockPcs == {"shift", "set_pos", "delete", "compact", "sort_update"}

\* C5: when the store fails a statement of a move, a delete or a sort, then
\* once the request has returned its error every entry of the user's list
\* is where it was before the request; when the failed statement stood
\* inside the transaction block, that is the committed list as well and
\* the connection is in no transaction.
C5_Atomicity ==
    \A t \in Tasks :
        (/\ Ended(t) /\ res[t] = "StoreFailure"
         /\ op[t].cmd \in MoveCmds \cup DelCmds \cup SortCmds)
        => /\ ListOf(tbl, op[t]) = ListOf(pre[t], op[t])
           /\ loc[t].at \in BlockPcs
                => /\ ListOf(committed, op[t]) = ListOf(pre[t], op[t])
                   /\ ~in_transaction

\* A move failed after its range shift, at the write of the moved entry.
C5_Witness ==
    /\ Ended(1) /\ res[1] = "StoreFailure"
    /\ op[1].cmd = "move_epic_to" /\ loc[1].at = "set_pos"
    /\ Dense(ListOf(tbl, op[1]))

\* C6: when an add of an entry the user does not have fails at its INSERT
\* after the shift of the existing positions, the shift is undone: every
\* stored position of the user's list is what it was before the add.
C6_AddShiftUndone ==
    \A t \in Tasks :
        (/\ Ended(t) /\ res[t] = "StoreFailure"
         /\ op[t].cmd \in AddCmds /\ loc[t].at = "insert"
         /\ op[t].key \notin Present(ListOf(pre[t], op[t])))
        => PositionsOf(ListOf(tbl, op[t])) = PositionsOf(ListOf(pre[t], op[t]))

\* C7: a request cancelled inside the transaction block of a move, a delete
\* or a sort leaves every position of the list as before the request, the
\* positions 1..N, and the connection outside any transaction.
C7_CancellationSafety ==
    \A t \in Tasks :
        (/\ Ended(t) /\ res[t] = "Cancelled" /\ loc[t].depth > 0
         /\ Dense(ListOf(pre[t], op[t])))
        => /\ ListOf(tbl, op[t]) = ListOf(pre[t], op[t])
           /\ Dense(ListOf(tbl, op[t]))
           /\ ~in_transaction

\* C8: inside a db.transaction() block nothing is committed (the committed
\* tables stay as they were when the request began); when the block exits
\* normally all its writes are committed together; when its body raises,
\* all of them are rolled back and the same exception reaches the caller.
C8_TransactionScope ==
    \A t \in Tasks :
        /\ (loc[t].depth > 0 /\ pc[t] # "idle") => committed = pre[t]
        /\ (pc[t] = "return" /\ loc[t].depth = 0 /\ loc[t].call = "commit")
            => committed = tbl /\ ~in_transaction /\ loc[t].err = "none"
        /\ (pc[t] = "return" /\ loc[t].depth = 0 /\ loc[t].call = "rollback")
            => /\ tbl = pre[t] /\ committed = pre[t] /\ ~in_transaction
               /\ loc[t].err = "StoreFailure"
        /\ (Ended(t) /\ loc[t].at \in BlockPcs) => res[t] = "StoreFailure"

\* A block holds a write that is not committed yet and is about to exit
\* normally.
C8_Witness ==
    /\ pc[1] = "tx_commit" /\ loc[1].depth = 1
    /\ tbl # committed /\ committed = pre[1]

\* C9: entering db.transaction() inside a db.transaction() block succeeds:
\* the BEGIN of the inner block never fails.
C9_NestedEntrySucceeds ==
    \A t \in Tasks :
        ~(/\ op[t].wrapped /\ loc[t].depth > 0
          /\ loc[t].call = "begin" /\ loc[t].err = "OperationalError")

\* C10: once a fetch_one/fetch_all issued outside any transaction block has
\* returned, the connection is in no transaction, and the db.transaction()
\* that follows begins.
C10_ReadNonLeak ==
    \A t \in Tasks :
        /\ (loc[t].call = "fetch" /\ pc[t] # "commit" /\ loc[t].depth = 0)
            => ~in_transaction
        /\ ~(loc[t].depth = 0 /\ loc[t].call = "begin"
                /\ loc[t].err = "OperationalError")

\* Task t has issued a statement of its request and has not returned yet.
Underway(t) == pc[t] # "idle" /\ loc[t].call # "none"

\* C11: a request's statements run only once the request before it has run
\* to completion: two requests are never both part-way through their
\* statements, and with no store failure no request ends with the
\* transaction-start error.
C11_StoreSerialization ==
    /\ \A t, u \in Tasks : t # u => ~(Underway(t) /\ Underway(u))
    /\ faults = 0 => \A t \in Tasks : ~(Ended(t) /\ res[t] = "OperationalError")

\* What an add leaves of a list when nothing else touches the store
\* between its first and its last round trip.
AddAlone(r, list) ==
    LET exists == list[r.key].position # 0
        added == InsertRow(BumpAll(list), r.key, TopPosition, r.payload)
    IN  CASE r.cmd = "favartistcurrent" ->
                IF exists THEN BumpAll(list) ELSE added
          [] r.cmd = "addwish" ->
                IF exists THEN SetPayload(list, r.key, r.payload) ELSE added
          [] r.cmd = "addartist" ->
                IF exists
                THEN IF r.payload # NoPayload
                     THEN SetPayload(list, r.key, r.payload) ELSE list
                ELSE added
          [] OTHER -> IF exists THEN list ELSE added

AloneAny(r, list) ==
    IF r.cmd \in AddCmds THEN {AddAlone(r, list)} ELSE Alone(r, list)

\* C12: when requests of two different users overlap, then with no store
\* failure neither ends with the transaction-start error, and a request
\* that answered success leaves its user's list as it leaves it when run
\* alone, whatever happened to the other user's request.
C12_CrossUserIndependence ==
    (/\ Ended(1) /\ Ended(2)
     /\ op[1].user # op[2].user)
    => \A t \in Tasks :
        /\ faults = 0 => res[t] # "OperationalError"
        /\ res[t] = "ok"
            => ListOf(tbl, op[t]) \in AloneAny(op[t], ListOf(InitTables, op[t]))

\* C13: a move of an entry to the position it already has leaves every
\* entry of the user's list as it was and is no error.
C13_MoveNoOp ==
    \A t \in Tasks :
        (/\ Ended(t) /\ op[t].cmd \in MoveCmds /\ ~op[t].wrapped
         /\ op[t].key \in Present(ListOf(pre[t], op[t]))
         /\ op[t].new_pos = ListOf(pre[t], op[t])[op[t].key].position)
        => /\ ListOf(tbl, op[t]) = ListOf(pre[t], op[t])
           /\ res[t] # "StoreFailure" => res[t] = "ok"

\* The entry at position 2 of three wishes was moved to position 2.
C13_Witness ==
    /\ Ended(1) /\ res[1] = "ok"
    /\ op[1].cmd = "move_wish_to" /\ op[1].key = "k2" /\ op[1].new_pos = 2
    /\ PositionsOf(ListOf(pre[1], op[1])) = Order("k1", "k2", "k3")
    /\ PositionsOf(ListOf(tbl, op[1])) = Order("k1", "k2", "k3")

\* C14: on a list of N >= 1 entries a move with a target below 1 leaves the
\* positions a move to 1 leaves, a move with a target above N leaves the
\* positions a move to N leaves, and neither is an error (no store failure
\* having occurred).
C14_MoveClamping ==
    \A t \in Tasks :
        (/\ Ended(t) /\ op[t].cmd \in MoveCmds /\ ~op[t].wrapped
         /\ op[t].key \in Present(ListOf(pre[t], op[t]))
         /\ faults = 0)
        => LET list == ListOf(pre[t], op[t])
               n == Cardinality(Present(list))
           IN  /\ op[t].new_pos < 1
                    => /\ res[t] = "ok"
                       /\ ListOf(tbl, op[t]) = MoveAlone(list, op[t].key, 1)
               /\ op[t].new_pos > n
                    => /\ res[t] = "ok"
                       /\ ListOf(tbl, op[t]) = MoveAlone(list, op[t].key, n)

\* C15: a delete of the entry at position p of a dense list removes that
\* entry, lowers by one every entry formerly above p and leaves every entry
\* formerly below p where it was; when the compaction is about to run, the
\* DELETE has run and no position has moved yet.
C15_DeleteCompaction ==
    \A t \in Tasks :
        LET before == ListOf(pre[t], op[t])
            p == before[op[t].key].position
        IN  /\ (/\ Ended(t) /\ res[t] = "ok" /\ op[t].cmd \in DelCmds
                /\ p # 0 /\ Dense(before))
                => \A k \in Keys :
                    ListOf(tbl, op[t])[k] =
                        IF k = op[t].key THEN NoRow
                        ELSE IF before[k].position > p
                        THEN [before[k] EXCEPT !.position = @ - 1]
                        ELSE before[k]
            /\ (pc[t] = "compact" /\ op[t].cmd \in DelCmds)
                => \A k \in Keys :
                    Cur(t)[k] = IF k = op[t].key THEN NoRow ELSE before[k]

\* The middle one of three favourite artists was deleted.
C15_Witness ==
    /\ Ended(1) /\ res[1] = "ok"
    /\ op[1].cmd = "delartist" /\ op[1].key = "k2"
    /\ PositionsOf(ListOf(pre[1], op[1])) = Order("k1", "k2", "k3")
    /\ ListOf(tbl, op[1])["k1"].position = 1
    /\ ListOf(tbl, op[1])["k2"].position = 0
    /\ ListOf(tbl, op[1])["k3"].position = 2

\* The add of task t is about to insert an entry the user did not have.
AtInsert(t) ==
    /\ pc[t] = "insert" /\ op[t].cmd \in AddCmds
    /\ op[t].key \notin Present(ListOf(pre[t], op[t]))

\* The add of task t has answered success for an entry the user did not have.
Added(t) ==
    /\ Ended(t) /\ res[t] = "ok" /\ op[t].cmd \in AddCmds
    /\ op[t].key \notin Present(ListOf(pre[t], op[t]))

\* C16 as stated: get_next_position, get_next_wish_position and
\* get_next_artist_position return the current maximum position + 1 of the
\* user's list (1 for an empty list) and change no stored position.
C16_PureRead ==
    \A t \in Tasks :
        AtInsert(t)
        => /\ PositionsOf(Cur(t)) = PositionsOf(ListOf(pre[t], op[t]))
           /\ TopPosition = MaxPosition(ListOf(pre[t], op[t])) + 1

\* C16: get_next_position, get_next_wish_position and
\* get_next_artist_position raise by one the stored position of every entry
\* of the user's list and return 1 whatever the current maximum: once they
\* have returned every entry is one position lower down the list, position
\* 1 is free, and the entry the add inserts next is stored at position 1.
C16_BumpAndReturnOne ==
    \A t \in Tasks :
        /\ AtInsert(t)
            => /\ \A k \in Keys :
                    Cur(t)[k].position =
                        IF ListOf(pre[t], op[t])[k].position = 0 THEN 0
                        ELSE ListOf(pre[t], op[t])[k].position + 1
               /\ 1 \notin Positions(Cur(t))
        /\ Added(t) => ListOf(tbl, op[t])[op[t].key].position = 1

\* addwish has shifted the two wishes the user had and is about to insert.
C16_Witness ==
    /\ AtInsert(1) /\ op[1].cmd = "addwish"
    /\ Positions(ListOf(pre[1], op[1])) = {1, 2}
    /\ Positions(Cur(1)) = {2, 3}

\* C17 as stated: of two adds run one after the other, the entry added
\* second is stored with a strictly greater position than the entry added
\* first.
C17_SecondGreater ==
    \A t \in Tasks :
        Added(t)
        => \A a \in Present(ListOf(pre[t], op[t])) :
            ListOf(tbl, op[t])[op[t].key].position
                > ListOf(tbl, op[t])[a].position

\* C17: of two adds run one after the other, the entry added second is
\* stored at position 1 and the entry added first is moved down by one, so
\* the entry added second has the strictly smaller position.
C17_SecondOnTop ==
    \A t \in Tasks :
        Added(t)
        => \A a \in Present(ListOf(pre[t], op[t])) :
            /\ ListOf(tbl, op[t])[op[t].key].position = 1
            /\ ListOf(tbl, op[t])[a].position
                    = ListOf(pre[t], op[t])[a].position + 1
            /\ ListOf(tbl, op[t])[op[t].key].position
                    < ListOf(tbl, op[t])[a].position

\* u2 had no epics, added k1 and then added k2: k2 is at 1 and k1 at 2.
C17_Witness ==
    /\ Added(1) /\ nops = 2 /\ op[1].cmd = "addepic"
    /\ op[1].user = "u2" /\ op[1].key = "k2"
    /\ Present(ListOf(pre[1], op[1])) = {"k1"}
    /\ ListOf(tbl, op[1])["k2"].position = 1
    /\ ListOf(tbl, op[1])["k1"].position = 2

\* C18: from an empty list, once A and B have been added, deleting A leaves
\* B as the only entry of the list, at position 1.
C18_RoundTrip ==
    \A t \in Tasks :
        (/\ Ended(t) /\ res[t] = "ok" /\ op[t].cmd \in DelCmds
         /\ ListOf(InitTables, op[t]) = EmptyList
         /\ Cardinality(Present(ListOf(pre[t], op[t]))) = 2
         /\ op[t].key \in Present(ListOf(pre[t], op[t])))
        => \E b \in Keys \ {op[t].key} :
            /\ Present(ListOf(tbl, op[t])) = {b}
            /\ ListOf(tbl, op[t])[b].position = 1

\* u2 added epic k1, then epic k2 (k2 on top), then deleted k1.
C18_Witness ==
    /\ Ended(1) /\ res[1] = "ok" /\ nops = 3
    /\ op[1].cmd = "delepic" /\ op[1].user = "u2" /\ op[1].key = "k1"
    /\ ListOf(pre[1], op[1])["k1"].position = 2
    /\ ListOf(pre[1], op[1])["k2"].position = 1
    /\ Present(ListOf(tbl, op[1])) = {"k2"}
    /\ ListOf(tbl, op[1])["k2"].position = 1

\* The 1-based rank of entry k among the entries of a list by name, case
\* ignored.
NameRank(list, k) ==
    1 + Cardinality({j \in Present(list) : NameLeq(j, k) /\ ~NameLeq(k, j)})

\* C19: a sort by name gives every entry of the user's list (the names
\* differing in more than case) its 1-based rank in the case-insensitive
\* order of the names (Banana, apple, Cherry
\* get apple = 1, Banana = 2, Cherry = 3) and changes nothing else; it does
\* so inside one transaction, with one position update per entry, issued in
\* rank order.
C19_SortByName ==
    \A t \in Tasks :
        LET before == ListOf(pre[t], op[t])
            byName == op[t].cmd \in SortCmds /\ op[t].mode = "name"
        IN  /\ (Ended(t) /\ res[t] = "ok" /\ byName /\ "k4" \notin Present(before))
                => /\ \A k \in Keys :
                        ListOf(tbl, op[t])[k] =
                            IF k \in Present(before)
                            THEN [before[k] EXCEPT !.position = NameRank(before, k)]
                            ELSE NoRow
                   /\ Present(before) = {"k1", "k2", "k3"}
                        => PositionsOf(ListOf(tbl, op[t])) = Order("k2", "k1", "k3")
            /\ (pc[t] = "sort_update" /\ byName /\ "k4" \notin Present(before))
                => LET rows == loc[t].rows
                       n == Len(rows)
                   IN  /\ loc[t].depth = 1 /\ in_transaction /\ committed = pre[t]
                       /\ n = Cardinality(Present(before))
                       /\ loc[t].idx \in 1..n
                       /\ \A i \in 1..n :
                            /\ rows[i] \in Present(before)
                            /\ NameRank(before, rows[i]) = i
                            /\ Cur(t)[rows[i]].position =
                                IF i < loc[t].idx THEN i
                                ELSE before[rows[i]].position

\* Epics Banana, apple, Cherry at 1, 2, 3 were sorted by name.
C19_Witness ==
    /\ Ended(1) /\ res[1] = "ok"
    /\ op[1].cmd = "sortepics" /\ op[1].mode = "name"
    /\ PositionsOf(ListOf(pre[1], op[1])) = Order("k1", "k2", "k3")
    /\ PositionsOf(ListOf(tbl, op[1])) = Order("k2", "k1", "k3")

\* C20: a sort by name gives a fixed set of entries the same positions every
\* time: the second of two sorts by name of the same list leaves every
\* entry where the first one put it.
C20_NameSortDeterminism ==
    (/\ Ended(1) /\ Ended(2)
     /\ res[1] = "ok" /\ res[2] = "ok"
     /\ op[2] = op[1] /\ op[2].mode = "name")
    => ListOf(tbl, op[2]) = ListOf(pre[2], op[2])

\* The badges from the highest to the lowest; an entry with no badge comes
\* after all of them.
BadgeTiers ==
    <<"Shiny", "VIP", "Legendary", "Diamond", "Platinum", "Gold", "Silver", "Bronze">>

TierOf(badge) ==
    IF \E i \in 1..Len(BadgeTiers) : BadgeTiers[i] = badge
    THEN CHOOSE i \in 1..Len(BadgeTiers) : BadgeTiers[i] = badge
    ELSE Len(BadgeTiers) + 1

\* The 1-based place of entry k among the entries of a list by badge, the
\* highest first, and by name, case ignored, among equal badges.
BadgePlace(list, k) ==
    1 + Cardinality({j \in Present(list) :
            \/ TierOf(list[j].payload) < TierOf(list[k].payload)
            \/ /\ TierOf(list[j].payload) = TierOf(list[k].payload)
               /\ NameLeq(j, k) /\ ~NameLeq(k, j)})

\* C21: a sort of the favourite artists by badge gives the user's N entries
\* the positions 1..N by badge, Shiny first, then VIP, Legendary, Diamond,
\* Platinum, Gold, Silver, Bronze and last the entries with no badge, the
\* entries of equal badge in case-insensitive order of their names; it
\* changes nothing else and issues one position update per entry, in that
\* order.
C21_SortByBadge ==
    \A t \in Tasks :
        LET before == ListOf(pre[t], op[t])
            byBadge == op[t].cmd = "sortartists" /\ op[t].mode = "badge"
        IN  /\ (Ended(t) /\ res[t] = "ok" /\ byBadge)
                => /\ \A k \in Keys :
                        ListOf(tbl, op[t])[k] =
                            IF k \in Present(before)
                            THEN [before[k] EXCEPT !.position = BadgePlace(before, k)]
                            ELSE NoRow
                   /\ Dense(ListOf(tbl, op[t]))
            /\ (pc[t] = "sort_update" /\ byBadge)
                => LET rows == loc[t].rows
                       n == Len(rows)
                   IN  /\ n = Cardinality(Present(before))
                       /\ loc[t].idx \in 1..n
                       /\ \A i \in 1..n :
                            /\ rows[i] \in Present(before)
                            /\ BadgePlace(before, rows[i]) = i
                            /\ Cur(t)[rows[i]].position =
                                IF i < loc[t].idx THEN i
                                ELSE before[rows[i]].position

\* Banana (Gold), apple (no badge), Cherry (Shiny) at 1, 2, 3 were sorted by
\* badge: Cherry, Banana, apple.
C21_Witness ==
    /\ Ended(1) /\ res[1] = "ok"
    /\ op[1].cmd = "sortartists" /\ op[1].mode = "badge"
    /\ LET before == ListOf(pre[1], op[1])
       IN  /\ PositionsOf(before) = Order("k1", "k2", "k3")
           /\ before["k1"].payload = "Gold"
           /\ before["k2"].payload = NoPayload
           /\ before["k3"].payload = "Shiny"
    /\ PositionsOf(ListOf(tbl, op[1])) = Order("k3", "k1", "k2")

\* The profile shows the entries of a list in case-insensitive order of
\* their names.
ShownByName(list) ==
    \A rows \in ProfileRows(list) :
        \A i, j \in 1..Len(rows) : i < j => NameLeq(rows[i], rows[j])

\* C22: once a list was sorted by name, the profile shows its entries in
\* case-insensitive order of their names at any later time, also after an
\* add to the list or a delete from it that followed the sort (no move and
\* no other sort in between).
C22_NamePolicyShown ==
    (/\ Ended(1) /\ res[1] = "ok"
     /\ op[1].cmd \in SortCmds /\ op[1].mode = "name"
     /\ \/ op[2].cmd = "none"
        \/ /\ Ended(2) /\ res[2] = "ok"
           /\ op[2].cmd \in AddCmds \cup DelCmds
           /\ SameList(op[1], op[2]))
    => ShownByName(ListOf(tbl, op[1]))

\* C23: sortepics, sortwishes and sortartists with mode manual change no
\* stored position, whatever item they are given: an entry of the user, an
\* item the user does not have, no item, or a string that is no item.  At
\* no step of the request does a list differ from what it was when the
\* request arrived, and the request opens no transaction block.
C23_ManualNoSideEffect ==
    \A t \in Tasks :
        (op[t].cmd \in SortCmds /\ op[t].mode = "manual")
            => /\ tbl = pre[t]
               /\ loc[t].depth = 0
               /\ pc[t] \in {"idle", "ensure_user", "fetch_pos", "commit", "return"}
               /\ Ended(t) =>
                    res[t] = CASE op[t].key = NoItem -> "prompt"
                               [] op[t].key = BadItem -> "invalid"
                               [] op[t].key \in Present(ListOf(pre[t], op[t])) -> "view"
                               [] OTHER -> "notfound"

\* A manual sort for an entry the user has ended with the move view; the
\* list was not in name order, and still is not.
C23_Witness ==
    /\ Ended(1) /\ res[1] = "view"
    /\ op[1].cmd = "sortartists" /\ op[1].mode = "manual" /\ op[1].key = "k2"
    /\ PositionsOf(ListOf(pre[1], op[1])) = Order("k1", "k2", "k3")
    /\ PositionsOf(ListOf(tbl, op[1])) = Order("k1", "k2", "k3")

\* C24: move_epic_to, move_wish_to and move_artist_to for an entry the user
\* does not have raise ValueError to the caller; the move makes its position
\* lookup and nothing else: it never reaches the BEGIN of its transaction
\* block or a write, and the tables stay as they were when it was called.
C24_MoveNotFound ==
    \A t \in Tasks :
        (/\ op[t].cmd \in MoveCmds /\ ~op[t].wrapped
         /\ op[t].key \notin Present(ListOf(pre[t], op[t])))
            => /\ tbl = pre[t]
               /\ loc[t].depth = 0
               /\ pc[t] \in {"idle", "fetch_pos", "commit", "return"}
               /\ (Ended(t) /\ res[t] # "StoreFailure") => res[t] = "ValueError"

\* u1 deleted wish k1 and then asked to move it: the move raised, k2 and k3
\* stayed at 1 and 2.
C24_Witness ==
    /\ Ended(1) /\ res[1] = "ValueError"
    /\ op[1].cmd = "move_wish_to" /\ op[1].user = "u1" /\ op[1].key = "k1"
    /\ op[1].new_pos = 2
    /\ Present(ListOf(pre[1], op[1])) = {"k2", "k3"}
    /\ ListOf(tbl, op[1])["k2"].position = 1
    /\ ListOf(tbl, op[1])["k3"].position = 2

\* C25: delepic, delwish and delartist for an item the user does not have
\* report that it was not found; the delete makes its lookup (delartist
\* after ensure_user) and nothing else: it never reaches its transaction
\* block, its DELETE or its compaction UPDATE, and the tables stay as they
\* were when the request arrived.
C25_DeleteNotFound ==
    \A t \in Tasks :
        (/\ op[t].cmd \in DelCmds
         /\ op[t].key \notin Present(ListOf(pre[t], op[t])))
            => /\ tbl = pre[t]
               /\ loc[t].depth = 0
               /\ pc[t] \in {"idle", "ensure_user", "fetch_pos", "commit", "return"}
               /\ (Ended(t) /\ res[t] # "StoreFailure") => res[t] = "notfound"

\* u1 deleted favourite k1 and then asked to delete it again: not found, k2
\* and k3 stayed at 1 and 2.
C25_Witness ==
    /\ Ended(1) /\ res[1] = "notfound"
    /\ op[1].cmd = "delartist" /\ op[1].user = "u1" /\ op[1].key = "k1"
    /\ Present(ListOf(pre[1], op[1])) = {"k2", "k3"}
    /\ ListOf(tbl, op[1])["k2"].position = 1
    /\ ListOf(tbl, op[1])["k3"].position = 2

\* The user of the request owns an Epic of the request's track.
OwnsTrack(list, key) == \E j \in Present(list) : TrackOf[j] = TrackOf[key]

\* C26: addepic for a track the user already owns an Epic of, whatever the
\* serial number, is rejected: no entry is added and no position changes.
\* So between requests every user has at most one user_epics entry for a
\* track.
C26_OneEpicPerTrack ==
    /\ AllIdle =>
            \A u \in Users :
                \A a, b \in Present(tbl["user_epics"][u]) :
                    TrackOf[a] = TrackOf[b] => a = b
    /\ \A t \in Tasks :
            (/\ Ended(t) /\ op[t].cmd = "addepic"
             /\ op[t].key # NoSong /\ EpicNumberOf(op[t].payload) > 0
             /\ OwnsTrack(ListOf(pre[t], op[t]), op[t].key))
                => res[t] = "rejected" /\ tbl = pre[t]

\* u2 owns Epic #1 of a track and asked to add Epic #2 of the same track:
\* rejected, the list as before.
C26_Witness ==
    /\ Ended(1) /\ res[1] = "rejected"
    /\ op[1].cmd = "addepic" /\ op[1].user = "u2"
    /\ op[1].key = "k5" /\ op[1].payload = "#2"
    /\ Present(ListOf(pre[1], op[1])) = {"k1", "k2"}
    /\ ListOf(pre[1], op[1])["k1"].payload = "#1"
    /\ tbl = pre[1]

\* C27: addepic with a serial number of 0 or less, and addepic and addwish
\* for a track the lookup does not find, end with an error message, add no
\* entry and change no position: at no step of such a request does a table
\* differ from what it was when the request arrived.
C27_RefusedAdds ==
    \A t \in Tasks :
        LET noSong == op[t].cmd \in {"addepic", "addwish"} /\ op[t].key = NoSong
            badNumber == op[t].cmd = "addepic" /\ EpicNumberOf(op[t].payload) <= 0
        IN  (noSong \/ badNumber)
                => /\ tbl = pre[t]
                   /\ pc[t] \in {"idle", "ensure_user", "commit", "return"}
                   /\ Ended(t) =>
                        res[t] = IF noSong THEN "song_not_found" ELSE "bad_number"

\* u2, who owns one Epic, asked to add an Epic with serial number 0 of
\* another track: refused, the list as before.
C27_Witness ==
    /\ Ended(1) /\ res[1] = "bad_number"
    /\ op[1].cmd = "addepic" /\ op[1].user = "u2"
    /\ op[1].key = "k2" /\ op[1].payload = "#0"
    /\ Present(ListOf(pre[1], op[1])) = {"k1"}
    /\ tbl = pre[1]

\* The tables differ from what they were before the request at most in the
\* request's own list.
OnlyOwnList(t) ==
    \A kind \in Kinds, u \in Users :
        (kind # KindOf(op[t].cmd) \/ u # op[t].user) => tbl[kind][u] = pre[t][kind][u]

\* C28: addwish for a track already on the wishlist changes only that
\* entry's note (to the note given, or to none), addartist for an artist
\* already a favourite changes only that entry's badge, and only when a
\* badge is given; no entry is added and no position changes.  addwish and
\* addartist for an item the user does not have store the new entry with
\* the note or badge given.
C28_ReAddUpdatesPayload ==
    \A t \in Tasks :
        LET before == ListOf(pre[t], op[t])
            after == ListOf(tbl, op[t])
            key == op[t].key
        IN  (Ended(t) /\ res[t] = "ok" /\ op[t].cmd \in {"addwish", "addartist"})
                => /\ OnlyOwnList(t)
                   /\ IF key \in Present(before)
                      THEN /\ \A k \in Keys \ {key} : after[k] = before[k]
                           /\ after[key].position = before[key].position
                           /\ after[key].payload =
                                IF op[t].cmd = "addwish" \/ op[t].payload # NoPayload
                                THEN op[t].payload
                                ELSE before[key].payload
                      ELSE after[key] = Row(1, op[t].payload)

\* u1 gave favourite k2, at position 2, the badge Gold with addartist, and
\* then ran addartist for k2 with no badge: k2 stayed at 2 with Gold.
C28_Witness ==
    /\ Ended(1) /\ res[1] = "ok"
    /\ op[1].cmd = "addartist" /\ op[1].user = "u1" /\ op[1].key = "k2"
    /\ op[1].payload = NoPayload
    /\ ListOf(pre[1], op[1])["k2"] = Row(2, "Gold")
    /\ ListOf(tbl, op[1])["k2"] = Row(2, "Gold")
    /\ PositionsOf(ListOf(tbl, op[1])) = Order("k1", "k2", "k3")

\* C29: setbadge for an artist who is not a favourite of the user (or for
\* a string that is no artist) never reaches its UPDATE, leaves every table
\* as it was and reports that; for a favourite it changes that entry's badge
\* to the badge given and nothing else: no position, no other entry.
C29_SetBadge ==
    \A t \in Tasks :
        LET before == ListOf(pre[t], op[t])
            after == ListOf(tbl, op[t])
            key == op[t].key
        IN  op[t].cmd = "setbadge"
                => /\ OnlyOwnList(t)
                   /\ PositionsOf(after) = PositionsOf(before)
                   /\ IF key \in Present(before)
                      THEN /\ \A k \in Keys \ {key} : after[k] = before[k]
                           /\ Ended(t) =>
                                /\ res[t] = "ok"
                                /\ after[key] = [before[key] EXCEPT !.payload = op[t].payload]
                      ELSE /\ tbl = pre[t]
                           /\ pc[t] # "set_badge"
                           /\ Ended(t) =>
                                res[t] = IF key = BadItem THEN "invalid" ELSE "notfavourite"

\* u1 set the badge of favourite k2 (Shiny, at position 2) to Gold.
C29_Witness ==
    /\ Ended(1) /\ res[1] = "ok"
    /\ op[1].cmd = "setbadge" /\ op[1].user = "u1" /\ op[1].key = "k2"
    /\ op[1].payload = "Gold"
    /\ ListOf(pre[1], op[1])["k2"] = Row(2, "Shiny")
    /\ ListOf(tbl, op[1])["k2"] = Row(2, "Gold")
    /\ ListOf(tbl, op[1])["k1"] = ListOf(pre[1], op[1])["k1"]

\* The concatenation of a sequence of chunks.
RECURSIVE Flatten(_)
Flatten(chunks) ==
    IF chunks = <<>> THEN <<>> ELSE Head(chunks) \o Flatten(Tail(chunks))

\* C30: for size >= 1, chunked(sequence, size) yields chunks whose
\* concatenation is the input, each of 1..size elements and all but
\* possibly the last of exactly size elements (at every step the chunks
\* yielded so far, each of size elements, and the chunk being filled make up
\* the items taken so far); for size <= 0 it raises ValueError and yields
\* nothing.
C30_Chunked ==
    \A t \in Tasks :
        op[t].cmd = "chunked"
            => LET sequence == op[t].sequence
                   size == op[t].size
                   yielded == loc[t].yielded
                   n == Len(yielded)
               IN  IF size >= 1
                   THEN /\ Flatten(yielded) \o loc[t].chunk = SubSeq(sequence, 1, loc[t].idx)
                        /\ Len(loc[t].chunk) < size
                        /\ \A i \in 1..n :
                                /\ Len(yielded[i]) \in 1..size
                                /\ (i < n \/ pc[t] # "idle") => Len(yielded[i]) = size
                        /\ Ended(t) => res[t] = "exhausted" /\ Flatten(yielded) = sequence
                   ELSE /\ yielded = <<>>
                        /\ pc[t] # "for_item"
                        /\ Ended(t) => res[t] = "ValueError"

\* chunked(<<a, b, a>>, 2) was iterated to its end: <<a, b>>, <<a>>.
C30_Witness ==
    /\ Ended(1) /\ res[1] = "exhausted"
    /\ op[1].cmd = "chunked"
    /\ op[1].sequence = <<"a", "b", "a">> /\ op[1].size = 2
    /\ loc[1].yielded = << <<"a", "b">>, <<"a">> >>

\* C31: an add (addepic, addwish, wishcurrent, addartist, favartistcurrent)
\* that answers success for an entry the user did not have stores that
\* entry at position 1 with the payload given, and leaves every entry the
\* user had in the list one position further down, in the order they were
\* in, with its payload.
C31_PrependSemantics ==
    \A t \in Tasks :
        LET before == ListOf(pre[t], op[t])
            after == ListOf(tbl, op[t])
        IN  Added(t)
            => /\ \A k \in Keys :
                    after[k] =
                        IF k = op[t].key THEN Row(TopPosition, op[t].payload)
                        ELSE IF k \in Present(before)
                        THEN [before[k] EXCEPT !.position = @ + 1]
                        ELSE NoRow
               /\ \A a, b \in Present(before) :
                    before[a].position < before[b].position
                        <=> after[a].position < after[b].position

\* u1, whose wishlist held k2 and k3 at 1 and 2, ran wishcurrent for k1:
\* k1 is at 1, k2 at 2, k3 at 3.
C31_Witness ==
    /\ Added(1) /\ op[1].cmd = "wishcurrent"
    /\ op[1].user = "u1" /\ op[1].key = "k1"
    /\ ListOf(pre[1], op[1])["k2"].position = 1
    /\ ListOf(pre[1], op[1])["k3"].position = 2
    /\ PositionsOf(ListOf(tbl, op[1])) = Order("k1", "k2", "k3")

\* The list a click on a button leaves: the entry one slot earlier (up) or
\* later (down) than where it is stored, the entries stored at that slot
\* in the slot it left; nothing changes for up at position 1 and for down
\* at the last position.
ClickExpected(before, key, button) ==
    LET pos == before[key].position
        to == IF button = "up" THEN pos - 1 ELSE pos + 1
    IN  IF to < 1 \/ to > MaxPosition(before) THEN before
        ELSE [k \in Keys |->
                IF k = key THEN [before[k] EXCEPT !.position = to]
                ELSE IF before[k].position = to THEN [before[k] EXCEPT !.position = pos]
                ELSE before[k]]

\* C32: a click on the up or down button of a move view reads the entry's
\* stored position when the click is handled and asks for a move to the
\* slot before or after it, so the entry ends one slot earlier or later
\* than where it was stored when the click came, whatever requests changed
\* the list before the click (up at position 1 and down at the last
\* position change nothing); a click for an entry that is no longer in the
\* list raises not-found and changes nothing.
C32_NoStalePositions ==
    \A t \in Tasks :
        LET before == ListOf(pre[t], op[t])
            pos == before[op[t].key].position
        IN  op[t].mode \in Buttons
            => /\ pc[t] # "get_position"
                    => op[t].new_pos = IF op[t].mode = "up" THEN pos - 1 ELSE pos + 1
               /\ Ended(t)
                    => /\ OnlyOwnList(t)
                       /\ IF pos = 0
                          THEN res[t] = "ValueError" /\ tbl = pre[t]
                          ELSE /\ res[t] = "edited"
                               /\ ListOf(tbl, op[t]) =
                                    ClickExpected(before, op[t].key, op[t].mode)

\* u1 deleted wish k1, which left k2 at 1 and k3 at 2, and then clicked up
\* in the view of k3: k3 is at 1 and k2 at 2.
C32_Witness ==
    /\ Ended(1) /\ res[1] = "edited"
    /\ op[1].cmd = "move_wish_to" /\ op[1].mode = "up" /\ op[1].key = "k3"
    /\ ListOf(pre[1], op[1])["k1"].position = 0
    /\ ListOf(pre[1], op[1])["k2"].position = 1
    /\ ListOf(pre[1], op[1])["k3"].position = 2
    /\ ListOf(tbl, op[1])["k3"].position = 1
    /\ ListOf(tbl, op[1])["k2"].position = 2

C34_CommitOnlyByOwner ==
    \A t \in Tasks :
        (loc[t].depth > 0 /\ pc[t] # "idle") => in_transaction

\* C35: a write that execute has made for a request outside any
\* transaction block is durable once execute has returned: the entry of an
\* add that answered success is in the user's list whatever becomes of
\* another request's transaction, unless that other request deleted the
\* entry.
C35_AcknowledgedWritesDurable ==
    \A t, u \in Tasks :
        (/\ t # u /\ Added(t) /\ Ended(u)
         /\ ~(op[u].cmd \in DelCmds /\ SameList(op[t], op[u]) /\ op[u].key = op[t].key))
            => op[t].key \in Present(ListOf(tbl, op[t]))

\* The payloads of the entries in S are in list b what they are in list a.
SamePayloads(a, b, S) == \A k \in S : b[k].payload = a[k].payload

\* What C36 says of moves, sorts and deletes that ended without error.
MembershipKept(t) ==
    LET before == ListOf(pre[t], op[t])
        after == ListOf(tbl, op[t])
        key == op[t].key
    IN  /\ op[t].cmd \in MoveCmds \cup SortCmds
            => /\ Present(after) = Present(before)
               /\ SamePayloads(before, after, Present(before))
        /\ op[t].cmd \in DelCmds
            => /\ key \in Present(before)
               /\ Present(after) = Present(before) \ {key}
               /\ SamePayloads(before, after, Present(after))

\* C36 as stated: moves and sorts neither add nor remove entries, a delete
\* removes the entry asked for and no other, an add inserts exactly one
\* entry, and none of them changes the payload of an entry.
C36_MembershipLiteral ==
    \A t \in Tasks :
        LET before == ListOf(pre[t], op[t])
            after == ListOf(tbl, op[t])
        IN  (Ended(t) /\ res[t] \in {"ok", "view"})
            => /\ MembershipKept(t)
               /\ op[t].cmd \in AddCmds
                    => /\ op[t].key \notin Present(before)
                       /\ Present(after) = Present(before) \cup {op[t].key}
                       /\ SamePayloads(before, after, Present(before))

\* C36: moves and sorts neither add nor remove entries, a delete removes
\* the entry asked for and no other, and an add for an item the user does
\* not have inserts exactly that entry; none of them changes the payload of
\* an entry.  An add for an item the user has inserts nothing and changes
\* at most the payload of that one entry.
C36_Membership ==
    \A t \in Tasks :
        LET before == ListOf(pre[t], op[t])
            after == ListOf(tbl, op[t])
        IN  (Ended(t) /\ res[t] \in {"ok", "view"})
            => /\ MembershipKept(t)
               /\ op[t].cmd \in AddCmds
                    => /\ Present(after) = Present(before) \cup {op[t].key}
                       /\ SamePayloads(before, after, Present(before) \ {op[t].key})

\* u1 put a note on wish k1 and then deleted wish k2: k1 and k3 are left,
\* k1 with its note.
C36_Witness ==
    /\ Ended(1) /\ res[1] = "ok"
    /\ op[1].cmd = "delwish" /\ op[1].user = "u1" /\ op[1].key = "k2"
    /\ Present(ListOf(pre[1], op[1])) = {"k1", "k2", "k3"}
    /\ ListOf(pre[1], op[1])["k1"].payload = "note"
    /\ Present(ListOf(tbl, op[1])) = {"k1", "k3"}
    /\ ListOf(tbl, op[1])["k1"].payload = "note"

\* C37: on a list whose positions are 1..N, a move of an entry to a
\* position of the list followed by a move of the same entry to the
\* position it came from leaves every entry at the position it had before
\* the first move.
C37_MoveInvertible ==
    (/\ Ended(1) /\ Ended(2) /\ res[1] = "ok" /\ res[2] = "ok"
     /\ op[1].cmd \in MoveCmds /\ op[2].cmd = op[1].cmd
     /\ op[2].user = op[1].user /\ op[2].key = op[1].key
     /\ Dense(ListOf(pre[1], op[1]))
     /\ op[1].new_pos \in Positions(ListOf(pre[1], op[1]))
     /\ op[2].new_pos = ListOf(pre[1], op[1])[op[1].key].position)
    => /\ ListOf(pre[2], op[2])[op[1].key].position = op[1].new_pos
       /\ ListOf(tbl, op[1]) = ListOf(pre[1], op[1])

\* Epic k1 was moved from 1 to 3 (k2, k3, k1) and then back to 1: k1, k2,
\* k3 as at first.
C37_Witness ==
    /\ Ended(1) /\ Ended(2) /\ res[1] = "ok" /\ res[2] = "ok"
    /\ op[1].cmd = "move_epic_to" /\ op[1].key = "k1" /\ op[1].new_pos = 3
    /\ op[2].cmd = "move_epic_to" /\ op[2].key = "k1" /\ op[2].new_pos = 1
    /\ PositionsOf(ListOf(pre[1], op[1])) = Order("k1", "k2", "k3")
    /\ PositionsOf(ListOf(pre[2], op[2])) = Order("k2", "k3", "k1")
    /\ PositionsOf(ListOf(tbl, op[2])) = Order("k1", "k2", "k3")

\* C38: after a sort by name or by badge that ended without error the
\* positions of the user's N entries are exactly 1..N, one entry at each,
\* whatever positions were stored before the sort: gaps, several entries at
\* one position, values that are no position; the entries are the ones the
\* user had.
C38_SortRestoresDensity ==
    \A t \in Tasks :
        (/\ Ended(t) /\ res[t] = "ok"
         /\ op[t].cmd \in SortCmds /\ op[t].mode \in {"name", "badge"})
            => /\ Dense(ListOf(tbl, op[t]))
               /\ Present(ListOf(tbl, op[t])) = Present(ListOf(pre[t], op[t]))

\* Wishes Banana and apple both at 4 and Cherry with no position were
\* sorted by name: apple 1, Banana 2, Cherry 3.
C38_Witness ==
    /\ Ended(1) /\ res[1] = "ok"
    /\ op[1].cmd = "sortwishes" /\ op[1].mode = "name"
    /\ ListOf(pre[1], op[1])["k1"].position = 4
    /\ ListOf(pre[1], op[1])["k2"].position = 4
    /\ ListOf(pre[1], op[1])["k3"].position = -1
    /\ PositionsOf(ListOf(tbl, op[1])) = Order("k2", "k1", "k3")

\* C39: no step of an add, a move, a delete or a sort on one user's list of
\* one kind changes the user's lists of the other two kinds or any list of
\* another user: each step leaves their positions and their entries as they
\* were.
C39_KindAndUserFrame ==
    [][\A t \in Tasks :
        (/\ pc[t] # "idle"
         /\ op[t].cmd \in Cmds
         /\ pc'[t] # pc[t] \/ loc'[t] # loc[t])
            => \A kind \in Kinds, u \in Users :
                <<kind, u>> # <<KindOf(op[t].cmd), op[t].user>>
                    => tbl'[kind][u] = tbl[kind][u]]_vars

====
